---- MODULE Spec2Model ----
(***************************************************************************)
(* A model of the confluence signal engine of DoganStrateji:               *)
(*   - CVDCalculator   (src/core/cvd_calculator.py)                        *)
(*   - SignalDetector  (src/core/signal_detector.py)                       *)
(*   - RiskManager     (src/core/risk_manager.py)                          *)
(* Quantities, prices and balances are exact numbers (integers, or         *)
(* rationals kept as numerator/denominator pairs): floating-point rounding *)
(* is not modelled.                                                        *)
(***************************************************************************)
EXTENDS Integers, Sequences, FiniteSets, TLC

(***************************************************************************)
(* Bounds of the model and configuration values.                           *)
(***************************************************************************)
\* Calls of process_trade/reset explored from construction (SpecCVD).
MaxTrades == 6
\* Calls explored by the traced, single-step specification (SpecCVDStep).
MaxSteps == 4
\* Capacity of the cvd_history deque (1000 in the source), scaled down.
HistoryMaxLen == 4
\* Capacity of each CVD pivot deque (50 in the source), scaled down.
PivotMaxLen == 3
\* config.cvd_lookback (default 10), scaled down.
lookback_period == 2
\* Slice of the history the pivot refresh looks at: list(cvd_history)[-50:].
PivotWindow == 50
\* Number of pivots detect_cvd_divergence asks for: get_pivot_highs(5).
DivergencePivotCount == 5
\* timeframe_to_minutes(config.timeframe) for the shortest timeframe, "1m".
timeframe_minutes == 1

TimeframeMs == timeframe_minutes * 60 * 1000

\* self.current_candle_start_time = None (no timestamp is negative).
None == -1

Max(a, b) == IF a >= b THEN a ELSE b
Min(a, b) == IF a <= b THEN a ELSE b

(***************************************************************************)
(* Inputs: trade events.  A trade_data dict is a record of its three       *)
(* fields plus "defect", which says which one field (if any) is missing or *)
(* invalid; the value carried for a defective field is not read.           *)
(*   ts_missing / qty_missing / ibm_missing / price_missing: key absent    *)
(*   ts_invalid / qty_invalid: a non-numeric value (None, a string)        *)
(*   ibm_truthy / ibm_falsy: a non-bool value ("false", None)              *)
(*   price_invalid: a non-numeric value (only ever formatted into a log)   *)
(***************************************************************************)
Timestamps == {0, TimeframeMs - 1, TimeframeMs, 2 * TimeframeMs - 1}
Quantities == {1, 2}
WellFormedEvents == [timestamp : Timestamps, quantity : Quantities,
                     is_buyer_maker : BOOLEAN, defect : {"none"}]
\* One representative per malformed event and per value of the fields that
\* process_trade reads before it fails.
MalformedEvents ==
    [timestamp : {0}, quantity : {1}, is_buyer_maker : {FALSE},
     defect : {"ts_missing", "ts_invalid", "qty_missing", "ibm_missing"}]
    \cup [timestamp : Timestamps, quantity : {1}, is_buyer_maker : {FALSE},
          defect : {"qty_invalid", "ibm_truthy", "ibm_falsy"}]
    \cup [timestamp : Timestamps, quantity : {1}, is_buyer_maker : BOOLEAN,
          defect : {"price_missing", "price_invalid"}]
NoEvent == [timestamp |-> 0, quantity |-> 1, is_buyer_maker |-> FALSE,
            defect |-> "no_call"]

VARIABLES
    \* ---- CVDCalculator
    current_candle_delta,
    current_candle_start_time,
    cvd_history,
    cumulative_cvd,
    current_candle_data,
    cvd_pivots_high,
    cvd_pivots_low,
    \* ---- observation of the CVDCalculator's callers
    n_calls,        \* calls made since construction
    net_applied,    \* signed quantity of the trades applied since construction/reset
    n_closed,       \* candles closed since construction/reset
    last_ev,        \* the event of the last process_trade call (traced runs only)
    \* ---- RiskManager
    active_positions,   \* position_id -> position dict
    trade_history,
    \* ---- the RiskManager's caller
    position_params,    \* what calculate_position_parameters last returned: <<>> or <<dict>>
    risk_ret,           \* what the last RiskManager call returned
    n_risk_ops,         \* RiskManager calls made since construction
    \* ---- SignalDetector
    price_data,         \* the klines last fetched, oldest first
    last_update,        \* None, or Updated once a fetch succeeded
    price_pivots_high,  \* <<timestamp, price>> pairs
    price_pivots_low,
    \* ---- the SignalDetector's and the divergence check's caller
    sig_ret,            \* what the last signal or divergence call returned
    \* ---- the task that is mutating a component
    pc,                 \* the mutating call in progress and where it stands
    \* ---- DataManager
    klines_cache,           \* <<>> or <<[data, cache_time]>> for the one key used
    funding_rate_cache,
    open_interest_cache,
    \* ---- the DataManager's caller and the clock
    now,                \* datetime.now(), in seconds since construction
    data_ret,           \* what the last DataManager call returned
    n_data_ops          \* DataManager calls made since construction

cvdVars == <<current_candle_delta, current_candle_start_time, cvd_history,
             cumulative_cvd, current_candle_data, cvd_pivots_high, cvd_pivots_low>>
obsVars == <<n_calls, net_applied, n_closed, last_ev>>
riskVars == <<active_positions, trade_history>>
callerVars == <<position_params, risk_ret, n_risk_ops>>
detectorVars == <<price_data, last_update, price_pivots_high, price_pivots_low>>
sigVars == <<detectorVars, sig_ret>>
taskVars == <<pc>>

\* No mutating call is in progress.
Idle == [op |-> "idle"]
cacheVars == <<klines_cache, funding_rate_cache, open_interest_cache>>
dataVars == <<cacheVars, now, data_ret, n_data_ops>>
vars == <<cvdVars, obsVars, riskVars, callerVars, sigVars, taskVars, dataVars>>

(***************************************************************************)
(* CVDCalculator                                                           *)
(***************************************************************************)
NewCandleData(open, close) ==
    [open_time |-> open, close_time |-> close, delta |-> 0, buy_volume |-> 0,
     sell_volume |-> 0, total_volume |-> 0, trade_count |-> 0]

\* The calculator's fields as one record.
CvdState ==
    [current_candle_delta |-> current_candle_delta,
     current_candle_start_time |-> current_candle_start_time,
     cvd_history |-> cvd_history,
     cumulative_cvd |-> cumulative_cvd,
     current_candle_data |-> current_candle_data,
     cvd_pivots_high |-> cvd_pivots_high,
     cvd_pivots_low |-> cvd_pivots_low]

CvdConstructed ==
    [current_candle_delta |-> 0,
     current_candle_start_time |-> None,
     cvd_history |-> <<>>,
     cumulative_cvd |-> 0,
     current_candle_data |-> NewCandleData(None, None),
     cvd_pivots_high |-> <<>>,
     cvd_pivots_low |-> <<>>]

\* A deque that never drops an entry.
DequeAppend_unbounded(q, x, maxlen) == Append(q, x)

\* deque(maxlen=n).append(x)
DequeAppend(q, x, maxlen) ==
    IF Len(q) >= maxlen THEN Append(Tail(q), x) ELSE Append(q, x)

\* utils.helpers.find_pivot_highs / find_pivot_lows: 0-based indices i with
\* window <= i < len - window whose value is the strict extremum of
\* [i - window, i + window], in input order.
IsPivotHigh(series, i, window) ==
    /\ window <= i
    /\ i < Len(series) - window
    /\ \A j \in (i - window)..(i + window) : j # i => series[i + 1] > series[j + 1]

IsPivotLow(series, i, window) ==
    /\ window <= i
    /\ i < Len(series) - window
    /\ \A j \in (i - window)..(i + window) : j # i => series[i + 1] < series[j + 1]

find_pivot_highs(series, window) ==
    SelectSeq([k \in 1..Len(series) |-> k - 1],
              LAMBDA i : IsPivotHigh(series, i, window))

find_pivot_lows(series, window) ==
    SelectSeq([k \in 1..Len(series) |-> k - 1],
              LAMBDA i : IsPivotLow(series, i, window))

\* _get_candle_start_time rounding to the second instead of to the timeframe.
get_candle_start_time_to_second(timestamp) ==
    (timestamp \div 1000) * 1000

get_candle_start_time(timestamp) ==
    LET timestamp_seconds == timestamp \div 1000
        timeframe_seconds == timeframe_minutes * 60
        candle_start_seconds == (timestamp_seconds \div timeframe_seconds) * timeframe_seconds
    IN  candle_start_seconds * 1000

\* _initialize_new_candle without line 115: the standalone delta is carried
\* over into the new candle.
initialize_new_candle_keeps_delta(S, candle_start_time) ==
    [S EXCEPT !.current_candle_start_time = candle_start_time,
              !.current_candle_data =
                  NewCandleData(candle_start_time,
                                candle_start_time + (timeframe_minutes * 60 * 1000) - 1)]

initialize_new_candle(S, candle_start_time) ==
    [S EXCEPT !.current_candle_start_time = candle_start_time,
              !.current_candle_delta = 0,
              !.current_candle_data =
                  NewCandleData(candle_start_time,
                                candle_start_time + (timeframe_minutes * 60 * 1000) - 1)]

\* A record taking its candle one position after the one its index names
\* (list(history)[-(len(recent_cvd) - idx) + 1]).
PivotRecord_next_candle(hist, n_recent, idx) ==
    LET candle == hist[Min(Len(hist), Len(hist) - (n_recent - idx) + 2)]
    IN  [timestamp |-> candle.timestamp,
         cvd_value |-> candle.cumulative_cvd,
         index |-> Len(hist) - (n_recent - idx)]

\* The record appended for history position idx of the window recent_cvd
\* (the last n_recent entries of hist).
PivotRecord(hist, n_recent, idx) ==
    LET candle == hist[Len(hist) - (n_recent - idx) + 1]
    IN  [timestamp |-> candle.timestamp,
         cvd_value |-> candle.cumulative_cvd,
         index |-> Len(hist) - (n_recent - idx)]

RECURSIVE AppendPivots(_, _, _, _)
AppendPivots(q, idxs, hist, n_recent) ==
    IF idxs = <<>> THEN q
    ELSE AppendPivots(
             IF Head(idxs) < Len(hist)
             THEN DequeAppend(q, PivotRecord(hist, n_recent, Head(idxs)), PivotMaxLen)
             ELSE q,
             Tail(idxs), hist, n_recent)

update_pivot_detection(S) ==
    IF Len(S.cvd_history) < lookback_period * 2 THEN S
    ELSE
      LET n == Len(S.cvd_history)
          n_recent == Min(n, PivotWindow)
          recent_cvd == [k \in 1..n_recent |-> S.cvd_history[n - n_recent + k].cumulative_cvd]
          pivot_highs == find_pivot_highs(recent_cvd, lookback_period \div 2)
          pivot_lows == find_pivot_lows(recent_cvd, lookback_period \div 2)
      IN  [S EXCEPT
             !.cvd_pivots_high = AppendPivots(@, pivot_highs, S.cvd_history, n_recent),
             !.cvd_pivots_low = AppendPivots(@, pivot_lows, S.cvd_history, n_recent)]

\* _close_current_candle adding the candle's delta to the total without
\* appending its record to the history.
close_current_candle_unrecorded(S) ==
    IF S.current_candle_start_time = None THEN S
    ELSE update_pivot_detection(
             [S EXCEPT !.cumulative_cvd = @ + S.current_candle_delta])

\* _close_current_candle snapshotting cumulative_cvd before line 135 added
\* the candle's delta to it.
close_current_candle_stale_total(S) ==
    IF S.current_candle_start_time = None THEN S
    ELSE
      LET cum == S.cumulative_cvd + S.current_candle_delta
          candle_record ==
              [timestamp |-> S.current_candle_start_time,
               delta |-> S.current_candle_delta,
               cumulative_cvd |-> S.cumulative_cvd,
               buy_volume |-> S.current_candle_data.buy_volume,
               sell_volume |-> S.current_candle_data.sell_volume,
               total_volume |-> S.current_candle_data.total_volume,
               trade_count |-> S.current_candle_data.trade_count,
               buy_ratio |-> <<S.current_candle_data.buy_volume,
                               Max(S.current_candle_data.total_volume, 1)>>]
      IN  update_pivot_detection(
              [S EXCEPT !.cumulative_cvd = cum,
                        !.cvd_history = DequeAppend(@, candle_record, HistoryMaxLen)])

close_current_candle(S) ==
    IF S.current_candle_start_time = None THEN S
    ELSE
      LET cum == S.cumulative_cvd + S.current_candle_delta
          candle_record ==
              [timestamp |-> S.current_candle_start_time,
               delta |-> S.current_candle_delta,
               cumulative_cvd |-> cum,
               buy_volume |-> S.current_candle_data.buy_volume,
               sell_volume |-> S.current_candle_data.sell_volume,
               total_volume |-> S.current_candle_data.total_volume,
               trade_count |-> S.current_candle_data.trade_count,
               \* buy_volume / max(total_volume, 1), kept as a fraction
               buy_ratio |-> <<S.current_candle_data.buy_volume,
                               Max(S.current_candle_data.total_volume, 1)>>]
      IN  update_pivot_detection(
              [S EXCEPT !.cumulative_cvd = cum,
                        !.cvd_history = DequeAppend(@, candle_record, HistoryMaxLen)])

\* bool(is_buyer_maker) as the "if is_buyer_maker:" of process_trade reads it.
Truthy(ev) ==
    CASE ev.defect = "ibm_truthy" -> TRUE
      [] ev.defect = "ibm_falsy" -> FALSE
      [] OTHER -> ev.is_buyer_maker

\* Lines 79-95 of process_trade with the bucket's sides swapped: the quantity
\* of a seller-aggressor trade is booked as a buy and the other way round.
accumulate_sides_swapped(S, ev) ==
    LET quantity == ev.quantity
        delta == IF Truthy(ev) THEN quantity ELSE 0 - quantity
    IN  [S EXCEPT
           !.current_candle_data.trade_count = @ + 1,
           !.current_candle_data.total_volume = @ + quantity,
           !.current_candle_data.buy_volume = IF Truthy(ev) THEN @ + quantity ELSE @,
           !.current_candle_data.sell_volume = IF Truthy(ev) THEN @ ELSE @ + quantity,
           !.current_candle_data.delta = @ + delta,
           !.current_candle_delta = @ + delta]

\* Lines 79-95 of process_trade: the trade added to the current bucket.
accumulate(S, ev) ==
    LET quantity == ev.quantity
        delta == IF Truthy(ev) THEN 0 - quantity ELSE quantity
    IN  [S EXCEPT
           !.current_candle_data.trade_count = @ + 1,
           !.current_candle_data.total_volume = @ + quantity,
           !.current_candle_data.sell_volume = IF Truthy(ev) THEN @ + quantity ELSE @,
           !.current_candle_data.buy_volume = IF Truthy(ev) THEN @ ELSE @ + quantity,
           !.current_candle_data.delta = @ + delta,
           !.current_candle_delta = @ + delta]

\* process_trade closing the open candle on every trade, whatever its bucket.
process_trade_closes_every_trade(S, ev) ==
    IF ev.defect \in {"ts_missing", "qty_missing", "ibm_missing"} THEN S
    ELSE IF ev.defect = "ts_invalid" THEN S
    ELSE
      LET candle_start_time == get_candle_start_time(ev.timestamp)
          S1 == IF S.current_candle_start_time # None
                THEN close_current_candle(S) ELSE S
          S2 == initialize_new_candle(S1, candle_start_time)
      IN  IF ev.defect = "qty_invalid"
          THEN [S2 EXCEPT !.current_candle_data.trade_count = @ + 1]
          ELSE accumulate(S2, ev)

\* process_trade: the state it leaves, with every exception caught by its
\* "except Exception" at the point where it is raised.
process_trade(S, ev) ==
    IF ev.defect \in {"ts_missing", "qty_missing", "ibm_missing"} THEN S   \* KeyError, lines 63-65
    ELSE IF ev.defect = "ts_invalid" THEN S                                \* TypeError, line 105
    ELSE
      LET candle_start_time == get_candle_start_time(ev.timestamp)
          S1 == IF /\ S.current_candle_start_time # None
                   /\ candle_start_time # S.current_candle_start_time
                THEN close_current_candle(S) ELSE S
          S2 == IF S1.current_candle_start_time # candle_start_time
                THEN initialize_new_candle(S1, candle_start_time) ELSE S1
      IN  IF ev.defect = "qty_invalid"
          \* TypeError at line 81, after line 80 counted the trade
          THEN [S2 EXCEPT !.current_candle_data.trade_count = @ + 1]
          \* price_missing: KeyError at line 97, after the trade was applied
          ELSE accumulate(S2, ev)

\* get_current_cvd returning the total through the last closed candle only.
get_current_cvd_stale(S) == S.cumulative_cvd

get_current_cvd(S) == S.cumulative_cvd + S.current_candle_delta

reset(S) ==
    [S EXCEPT !.current_candle_delta = 0,
              !.current_candle_start_time = None,
              !.cvd_history = <<>>,
              !.cumulative_cvd = 0,
              !.cvd_pivots_high = <<>>,
              !.cvd_pivots_low = <<>>]

(***************************************************************************)
(* CVDCalculator.detect_cvd_divergence                                     *)
(***************************************************************************)
\* list(q)[-count:]
LastN(q, count) == SubSeq(q, Max(1, Len(q) - count + 1), Len(q))

get_pivot_highs(S, count) == LastN(S.cvd_pivots_high, count)
get_pivot_lows(S, count) == LastN(S.cvd_pivots_low, count)

\* detect_cvd_divergence accepting an equal second pivot on either side.
detect_cvd_divergence_non_strict(S, price_pivots, divergence_type) ==
    LET cvd_pivots == IF divergence_type = "bearish"
                      THEN get_pivot_highs(S, DivergencePivotCount)
                      ELSE get_pivot_lows(S, DivergencePivotCount)
    IN  IF Len(price_pivots) < 2 \/ Len(cvd_pivots) < 2 THEN FALSE
        ELSE
          LET price_pivot1 == price_pivots[Len(price_pivots) - 1]
              price_pivot2 == price_pivots[Len(price_pivots)]
              cvd_pivot1 == cvd_pivots[Len(cvd_pivots) - 1]
              cvd_pivot2 == cvd_pivots[Len(cvd_pivots)]
          IN  IF divergence_type = "bearish"
              THEN price_pivot2[2] >= price_pivot1[2]
                   /\ cvd_pivot2.cvd_value <= cvd_pivot1.cvd_value
              ELSE price_pivot2[2] <= price_pivot1[2]
                   /\ cvd_pivot2.cvd_value >= cvd_pivot1.cvd_value

detect_cvd_divergence(S, price_pivots, divergence_type) ==
    LET cvd_pivots == IF divergence_type = "bearish"
                      THEN get_pivot_highs(S, DivergencePivotCount)
                      ELSE get_pivot_lows(S, DivergencePivotCount)
    IN  IF Len(price_pivots) < 2 \/ Len(cvd_pivots) < 2 THEN FALSE
        ELSE
          LET price_pivot1 == price_pivots[Len(price_pivots) - 1]
              price_pivot2 == price_pivots[Len(price_pivots)]
              cvd_pivot1 == cvd_pivots[Len(cvd_pivots) - 1]
              cvd_pivot2 == cvd_pivots[Len(cvd_pivots)]
          IN  IF divergence_type = "bearish"
              THEN LET price_higher_high == price_pivot2[2] > price_pivot1[2]
                       cvd_lower_high == cvd_pivot2.cvd_value < cvd_pivot1.cvd_value
                   IN  price_higher_high /\ cvd_lower_high
              ELSE LET price_lower_low == price_pivot2[2] < price_pivot1[2]
                       cvd_higher_low == cvd_pivot2.cvd_value > cvd_pivot1.cvd_value
                   IN  price_lower_low /\ cvd_higher_low

(***************************************************************************)
(* SignalDetector                                                          *)
(***************************************************************************)
signal_lookback_period == 2     \* config.lookback_period
PricePivotKeep == 10            \* [-10:]
confirmation_period == 3        \* config.get('signals.confirmation_period', 3)
RefreshSeconds == 60
Updated == 0                    \* last_update once set
\* Funding rates in units of 0.0001.
high_funding_threshold == 100   \* 0.01
low_funding_threshold == 0 - 100

DetectorState ==
    [price_data |-> price_data, last_update |-> last_update,
     price_pivots_high |-> price_pivots_high, price_pivots_low |-> price_pivots_low]

RECURSIVE PricePivots(_, _, _)
\* The (timestamp, price) pairs of the candles at the pivot indices.
PricePivots(idxs, data, field) ==
    IF idxs = <<>> THEN <<>>
    ELSE (IF Head(idxs) < Len(data)
          THEN <<<<data[Head(idxs) + 1].open_time, data[Head(idxs) + 1][field]>>>>
          ELSE <<>>)
         \o PricePivots(Tail(idxs), data, field)

update_price_pivots(D) ==
    IF Len(D.price_data) < signal_lookback_period THEN D
    ELSE
      LET highs == [k \in 1..Len(D.price_data) |-> D.price_data[k].high]
          lows == [k \in 1..Len(D.price_data) |-> D.price_data[k].low]
          pivot_high_indices == find_pivot_highs(highs, signal_lookback_period \div 2)
          pivot_low_indices == find_pivot_lows(lows, signal_lookback_period \div 2)
      IN  [D EXCEPT
             !.price_pivots_high =
                 LastN(PricePivots(pivot_high_indices, D.price_data, "high"), PricePivotKeep),
             !.price_pivots_low =
                 LastN(PricePivots(pivot_low_indices, D.price_data, "low"), PricePivotKeep)]

\* update_price_data refreshing on every call.
update_price_data_always_refreshes(D, seconds, klines) ==
    IF ~klines.ok THEN D
    ELSE update_price_pivots([D EXCEPT !.price_data = klines.v,
                                       !.last_update = Updated])

\* update_price_data, seconds being (current_time - last_update).seconds
update_price_data(D, seconds, klines) ==
    IF D.last_update = None \/ seconds >= RefreshSeconds
    THEN IF ~klines.ok THEN D                                   \* except, line 71
         ELSE update_price_pivots([D EXCEPT !.price_data = klines.v,
                                            !.last_update = Updated])
    ELSE D

\* _check_price_higher_high accepting an equal second high.
check_price_higher_high_non_strict(D) ==
    IF Len(D.price_pivots_high) < 2 THEN FALSE
    ELSE D.price_pivots_high[Len(D.price_pivots_high)][2]
             >= D.price_pivots_high[Len(D.price_pivots_high) - 1][2]

\* _check_price_higher_high: the result's 'valid'
check_price_higher_high(D) ==
    IF Len(D.price_pivots_high) < 2 THEN FALSE
    ELSE LET prev_high == D.price_pivots_high[Len(D.price_pivots_high) - 1][2]
             recent_high == D.price_pivots_high[Len(D.price_pivots_high)][2]
         IN  recent_high > prev_high

\* _check_price_lower_low: the result's 'valid'
check_price_lower_low(D) ==
    IF Len(D.price_pivots_low) < 2 THEN FALSE
    ELSE LET prev_low == D.price_pivots_low[Len(D.price_pivots_low) - 1][2]
             recent_low == D.price_pivots_low[Len(D.price_pivots_low)][2]
         IN  recent_low < prev_low

\* utils.helpers.is_funding_rate_extreme
is_funding_rate_extreme(funding_rate, high_threshold, low_threshold) ==
    IF funding_rate >= high_threshold THEN "high"
    ELSE IF funding_rate <= low_threshold THEN "low"
    ELSE "normal"

\* _check_funding_rate: the result's 'extreme'
check_funding_rate(funding, direction) ==
    IF ~funding.ok THEN FALSE                                   \* except, line 406
    ELSE LET extreme_type == is_funding_rate_extreme(funding.v, high_funding_threshold,
                                                     low_funding_threshold)
         IN  \/ direction = "high" /\ extreme_type = "high"
             \/ direction = "low" /\ extreme_type = "low"

\* _check_open_interest_trend reporting a falling trend on a successful read.
check_open_interest_trend_falling(open_interest) ==
    IF ~open_interest.ok THEN [rising |-> FALSE, falling |-> FALSE]
    ELSE [rising |-> FALSE, falling |-> TRUE]

\* _check_open_interest_trend: the result's 'rising' and 'falling'
check_open_interest_trend(open_interest) ==
    IF ~open_interest.ok THEN [rising |-> FALSE, falling |-> FALSE]
    ELSE [rising |-> TRUE, falling |-> FALSE]

RECURSIVE SeqMax(_)
SeqMax(q) == IF Len(q) = 1 THEN q[1] ELSE Max(Head(q), SeqMax(Tail(q)))
RECURSIVE SeqMin(_)
SeqMin(q) == IF Len(q) = 1 THEN q[1] ELSE Min(Head(q), SeqMin(Tail(q)))

\* _check_price_confirmation: the result's 'valid'
check_price_confirmation(D, signal_type, price) ==
    IF Len(D.price_data) < 2 THEN FALSE
    ELSE IF ~price.ok THEN FALSE                                \* except, line 464
    ELSE
      LET recent_candles == LastN(D.price_data, confirmation_period)
          recent_high == SeqMax([k \in 1..Len(recent_candles) |-> recent_candles[k].high])
          recent_low == SeqMin([k \in 1..Len(recent_candles) |-> recent_candles[k].low])
      IN  IF signal_type = "bearish" THEN price.v * 1000 < recent_high * 999
          ELSE IF signal_type = "bullish" THEN price.v * 1000 > recent_low * 1001
          ELSE FALSE

\* No condition weighing more than the structure condition: the divergence
\* adds 25 instead of 35, so the two gates alone score 50.
Score_divergence_as_structure(flag, points) == IF flag THEN Min(points, 25) ELSE 0

\* The weight added whether or not the condition holds.
ScoreRegardless(flag, points) == points

Score(flag, points) == IF flag THEN points ELSE 0

\* The signal-fired event: logger.log_trade_signal(kind, symbol, current_price,
\* signal['details'], confidence_score), details named by their keys.
log_trade_signal(kind, confidence_score) ==
    [event |-> "log_trade_signal", kind |-> kind, symbol |-> "BTCUSDT",
     details |-> {"price_analysis", "funding_analysis", "oi_analysis", "confirmation"},
     confidence |-> confidence_score]

\* check_bearish_signal: the signal returned, the checks it made on the way
\* and the detector state it leaves.
check_bearish_signal(D, S, env) ==
    LET D1 == update_price_data(D, env.seconds, env.klines)
        price_hh == check_price_higher_high(D1)
        cvd_divergence == detect_cvd_divergence(S, D1.price_pivots_high, "bearish")
        funding_extreme == check_funding_rate(env.funding, "high")
        oi_rising == check_open_interest_trend(env.open_interest).rising
        confirmation == check_price_confirmation(D1, "bearish", env.price)
        confidence_score == Score(price_hh, 25) + Score(cvd_divergence, 35)
                            + Score(funding_extreme, 20) + Score(oi_rising, 10)
                            + Score(confirmation, 10)
        valid == price_hh /\ cvd_divergence /\ confidence_score >= 60
    IN  IF ~price_hh
        THEN [signal |-> [type |-> "bearish", valid |-> FALSE, confidence |-> 0,
                          conditions |-> ("price_higher_high" :> FALSE),
                          error |-> FALSE],
              checks |-> {"price_structure"},
              events |-> <<>>,
              D |-> D1]
        ELSE IF ~cvd_divergence
        THEN [signal |-> [type |-> "bearish", valid |-> FALSE, confidence |-> 0,
                          conditions |-> ("price_higher_high" :> TRUE
                                          @@ "cvd_divergence" :> FALSE),
                          error |-> FALSE],
              checks |-> {"price_structure", "cvd_divergence"},
              events |-> <<>>,
              D |-> D1]
        ELSE [signal |-> [type |-> "bearish", valid |-> valid,
                          confidence |-> confidence_score,
                          conditions |-> ("price_higher_high" :> TRUE
                                          @@ "cvd_divergence" :> TRUE
                                          @@ "funding_rate_extreme" :> funding_extreme
                                          @@ "open_interest_rising" :> oi_rising
                                          @@ "confirmation" :> confirmation),
                          \* get_current_price for the log raised, line 183
                          error |-> valid /\ ~env.price_for_log.ok],
              checks |-> {"price_structure", "cvd_divergence", "funding_rate",
                          "open_interest", "confirmation"},
              \* log_trade_signal, reached when the price read before it returns
              events |-> IF valid /\ env.price_for_log.ok
                         THEN <<log_trade_signal("BEARISH", confidence_score)>>
                         ELSE <<>>,
              D |-> D1]

check_bullish_signal(D, S, env) ==
    LET D1 == update_price_data(D, env.seconds, env.klines)
        price_ll == check_price_lower_low(D1)
        cvd_divergence == detect_cvd_divergence(S, D1.price_pivots_low, "bullish")
        funding_extreme == check_funding_rate(env.funding, "low")
        oi_falling == check_open_interest_trend(env.open_interest).falling
        confirmation == check_price_confirmation(D1, "bullish", env.price)
        confidence_score == Score(price_ll, 25) + Score(cvd_divergence, 35)
                            + Score(funding_extreme, 20) + Score(oi_falling, 10)
                            + Score(confirmation, 10)
        valid == price_ll /\ cvd_divergence /\ confidence_score >= 60
    IN  IF ~price_ll
        THEN [signal |-> [type |-> "bullish", valid |-> FALSE, confidence |-> 0,
                          conditions |-> ("price_lower_low" :> FALSE),
                          error |-> FALSE],
              checks |-> {"price_structure"},
              events |-> <<>>,
              D |-> D1]
        ELSE IF ~cvd_divergence
        THEN [signal |-> [type |-> "bullish", valid |-> FALSE, confidence |-> 0,
                          conditions |-> ("price_lower_low" :> TRUE
                                          @@ "cvd_divergence" :> FALSE),
                          error |-> FALSE],
              checks |-> {"price_structure", "cvd_divergence"},
              events |-> <<>>,
              D |-> D1]
        ELSE [signal |-> [type |-> "bullish", valid |-> valid,
                          confidence |-> confidence_score,
                          conditions |-> ("price_lower_low" :> TRUE
                                          @@ "cvd_divergence" :> TRUE
                                          @@ "funding_rate_extreme" :> funding_extreme
                                          @@ "open_interest_falling" :> oi_falling
                                          @@ "confirmation" :> confirmation),
                          \* get_current_price for the log raised, line 298
                          error |-> valid /\ ~env.price_for_log.ok],
              checks |-> {"price_structure", "cvd_divergence", "funding_rate",
                          "open_interest", "confirmation"},
              \* log_trade_signal, reached when the price read before it returns
              events |-> IF valid /\ env.price_for_log.ok
                         THEN <<log_trade_signal("BULLISH", confidence_score)>>
                         ELSE <<>>,
              D |-> D1]

(***************************************************************************)
(* Exact fractions <<numerator, denominator>>, denominator > 0, in lowest  *)
(* terms; Inf is float('inf').                                             *)
(***************************************************************************)
RECURSIVE GCD(_, _)
GCD(a, b) == IF b = 0 THEN a ELSE GCD(b, a % b)

Abs(x) == IF x < 0 THEN 0 - x ELSE x

Rat(n, d) ==
    LET sn == IF d < 0 THEN 0 - n ELSE n
        sd == Abs(d)
        g == GCD(Abs(sn), sd)
    IN  <<sn \div g, sd \div g>>

Inf == <<1, 0>>
FromInt(i) == <<i, 1>>
RAdd(a, b) == Rat(a[1] * b[2] + b[1] * a[2], a[2] * b[2])
RSub(a, b) == Rat(a[1] * b[2] - b[1] * a[2], a[2] * b[2])
RMul(a, b) == Rat(a[1] * b[1], a[2] * b[2])
RDiv(a, b) == Rat(a[1] * b[2], a[2] * b[1])
RAbs(a) == <<Abs(a[1]), a[2]>>
RLt(a, b) == a[1] * b[2] < b[1] * a[2]
RLe(a, b) == a[1] * b[2] <= b[1] * a[2]
\* Python's max(a, b) and min(a, b)
RMax(a, b) == IF RLt(a, b) THEN b ELSE a
RMin(a, b) == IF RLt(b, a) THEN b ELSE a

(***************************************************************************)
(* Configuration and the data provider's answers.                          *)
(***************************************************************************)
symbol == "BTCUSDT"                 \* config.symbol
risk_per_trade == <<1, 100>>        \* config.risk_per_trade, 0.01
risk_reward_ratio == <<3, 2>>       \* config.risk_reward_ratio, 1.5
max_positions == 1                  \* config.get('trading.max_positions', 1)
base_sl_pct == <<1, 50>>            \* 0.02
volatility_multiplier == <<3, 2>>   \* 1.5
min_position_size == <<1, 1000>>    \* 0.001
max_position_pct == <<1, 2>>        \* 0.5
AtrWindow == 10                     \* rolling(window=10)

\* A provider call returns a value or raises.
Ok(v) == [ok |-> TRUE, v |-> v]
Fail == [ok |-> FALSE, v |-> 0]

PositionIds == {"p1", "p2"}
RECURSIVE Rep(_, _)
Rep(n, x) == IF n = 0 THEN <<>> ELSE <<x>> \o Rep(n - 1, x)

\* get_historical_klines(symbol, timeframe, 20): the candles' high - low,
\* oldest first, or an exception.
NoKlines == [ok |-> FALSE, v |-> <<>>]
KlinesAnswers ==
    {NoKlines, Ok(<<4>>), Ok(Rep(9, 4)), Ok(Rep(20, 1)), Ok(Rep(10, 1) \o Rep(10, 4))}

Signals == [type : {"bullish", "bearish"}, confidence : {50, 80}]
StrongSignals == [type : {"bullish", "bearish"}, confidence : {80}]

\* Every answer the provider can give during calculate_position_parameters.
SizingEnvs ==
    [position_amount : {Fail, Ok(0), Ok(1)},
     balance : {Fail, Ok(0), Ok(1), Ok(10000)},
     price : {Fail, Ok(0), Ok(100), Ok(1000)},
     klines : KlinesAnswers,
     price_again : {Fail, Ok(0), Ok(100), Ok(1000)}]

\* The answers of a quiet market, for the runs that follow positions.
QuietEnvs ==
    [position_amount : {Ok(0), Ok(1)},
     balance : {Ok(10000)},
     price : {Ok(100)},
     klines : {Ok(<<>>)},
     price_again : {Ok(100)}]

\* get_current_price answers while a position is monitored, and exit prices.
MonitorPrices == {97, 98, 99, 101, 106}
ExitPrices == {97, 106}
CloseReasons == {"stop_loss", "manual"}

\* Parameter sets a caller hands to register_position without having them
\* from calculate_position_parameters: a long with stop 98 and target 106,
\* and a long whose stop and target are inverted.
GivenLong ==
    [symbol |-> symbol, side |-> "BUY", position_size |-> FromInt(50),
     entry_price |-> 100, stop_loss |-> FromInt(98), take_profit |-> FromInt(106),
     risk_amount |-> FromInt(100), reward_amount |-> FromInt(400),
     risk_reward_ratio |-> FromInt(4), account_balance |-> 10000,
     risk_percentage |-> FromInt(1), signal_confidence |-> 80]

GivenInvertedLong ==
    [GivenLong EXCEPT !.stop_loss = FromInt(102), !.take_profit = FromInt(97)]

GivenZeroSize == [GivenLong EXCEPT !.position_size = FromInt(0)]

GivenParams == {GivenLong, GivenInvertedLong, GivenZeroSize}

\* Parameter sets handed to validate_position: every combination of the
\* values below, and GivenLong with one key removed.
CompleteParams ==
    [symbol : {symbol}, side : {"BUY", "SELL"},
     position_size : {FromInt(0), FromInt(50)},
     entry_price : {100},
     stop_loss : {FromInt(98), FromInt(100), FromInt(102)},
     take_profit : {FromInt(97), FromInt(100), FromInt(103)},
     risk_amount : {FromInt(100), FromInt(2000)},
     reward_amount : {FromInt(150)},
     risk_reward_ratio : {risk_reward_ratio},
     account_balance : {0, 10000},
     risk_percentage : {FromInt(1)},
     signal_confidence : {50, 80}]

Without(pp, field) == [f \in DOMAIN pp \ {field} |-> pp[f]]

RequiredFields == {"position_size", "entry_price", "stop_loss", "take_profit",
                   "side", "risk_amount", "account_balance"}

IncompleteParams ==
    {Without(GivenLong, field) : field \in RequiredFields \cup {"signal_confidence"}}

(***************************************************************************)
(* RiskManager                                                             *)
(***************************************************************************)
ActiveCount(active) ==
    Cardinality({id \in DOMAIN active : active[id].status = "active"})

\* _can_open_position letting the count reach max_positions + 1.
can_open_position_one_more(active, position_amount) ==
    IF Abs(position_amount) > 0 THEN FALSE
    ELSE IF ActiveCount(active) > max_positions THEN FALSE
    ELSE TRUE

\* _can_open_position, given get_position_info's position_amount
can_open_position(active, position_amount) ==
    IF Abs(position_amount) > 0 THEN FALSE
    ELSE IF ActiveCount(active) >= max_positions THEN FALSE
    ELSE TRUE

RECURSIVE SumSeq(_)
SumSeq(q) == IF q = <<>> THEN 0 ELSE Head(q) + SumSeq(Tail(q))

\* high_low.rolling(window=10).mean().iloc[-1]: the mean of the last 10
\* ranges; <<>> stands for NaN (fewer than 10 rows).
RollingMeanLast(ranges) ==
    IF Len(ranges) < AtrWindow THEN <<>>
    ELSE <<Rat(SumSeq(SubSeq(ranges, Len(ranges) - AtrWindow + 1, Len(ranges))),
               AtrWindow)>>

\* adjusted_sl_pct taking the volatility figure without the 2% floor.
adjusted_sl_pct_no_floor(entry_price, klines) ==
    IF ~klines.ok THEN base_sl_pct
    ELSE IF Len(klines.v) > 1 THEN
        LET avg_range == RollingMeanLast(klines.v)
        IN  IF avg_range = <<>> THEN base_sl_pct
            ELSE RMul(RDiv(avg_range[1], FromInt(entry_price)),
                      volatility_multiplier)
    ELSE base_sl_pct

\* The adjusted_sl_pct of _calculate_sl_tp.
adjusted_sl_pct(entry_price, klines) ==
    IF ~klines.ok THEN base_sl_pct                          \* except, line 148
    ELSE IF Len(klines.v) > 1 THEN
        LET avg_range == RollingMeanLast(klines.v)
        IN  IF avg_range = <<>> THEN base_sl_pct            \* max(0.02, nan)
            ELSE RMax(base_sl_pct,
                      RMul(RDiv(avg_range[1], FromInt(entry_price)),
                           volatility_multiplier))
    ELSE base_sl_pct

\* utils.helpers.calculate_stop_loss_take_profit: <<stop_loss, take_profit>>
calculate_stop_loss_take_profit(entry_price, side, rr, sl_pct) ==
    LET entry == FromInt(entry_price)
        stop_distance == RMul(entry, sl_pct)
    IN  IF side = "BUY"
        THEN <<RSub(entry, stop_distance), RAdd(entry, RMul(stop_distance, rr))>>
        ELSE <<RAdd(entry, stop_distance), RSub(entry, RMul(stop_distance, rr))>>

calculate_sl_tp(entry_price, side, klines) ==
    calculate_stop_loss_take_profit(entry_price, side, risk_reward_ratio,
                                    adjusted_sl_pct(entry_price, klines))

\* utils.helpers.calculate_position_size
calculate_position_size(account_balance, risk, entry_price, stop_loss) ==
    LET price_diff == RAbs(RSub(FromInt(entry_price), stop_loss))
    IN  IF price_diff[1] = 0 THEN FromInt(0)
        ELSE RDiv(RMul(FromInt(account_balance), risk), price_diff)

get_min_position_size == min_position_size

\* _get_max_position_size, given its own get_current_price answer (> 0 or not)
get_max_position_size(account_balance, current_price) ==
    IF current_price > 0
    THEN RDiv(RMul(FromInt(account_balance), max_position_pct), FromInt(current_price))
    ELSE Inf

\* _calculate_position_size, given the price _get_max_position_size reads
calculate_position_size_clamped(account_balance, entry_price, stop_loss, price_again) ==
    LET position_size == calculate_position_size(account_balance, risk_per_trade,
                                                 entry_price, stop_loss)
        min_size == get_min_position_size
        max_size == get_max_position_size(account_balance, price_again)
    IN  RMax(min_size, RMin(position_size, max_size))

\* calculate_position_parameters going on with a balance of zero.
calculate_position_parameters_zero_balance(active, signal, env) ==
    IF ~env.position_amount.ok THEN <<>>                        \* except, line 105
    ELSE IF ~can_open_position(active, env.position_amount.v) THEN <<>>
    ELSE IF ~env.balance.ok THEN <<>>
    ELSE IF env.balance.v < 0 THEN <<>>
    ELSE IF ~env.price.ok THEN <<>>
    ELSE IF env.price.v <= 0 THEN <<>>
    ELSE IF ~env.price_again.ok THEN <<>>                       \* raised at line 186
    ELSE
      LET account_balance == env.balance.v
          current_price == env.price.v
          side == IF signal.type = "bullish" THEN "BUY" ELSE "SELL"
          sltp == calculate_sl_tp(current_price, side, env.klines)
          position_size == calculate_position_size_clamped(
                               account_balance, current_price, sltp[1], env.price_again.v)
          risk_amount == RMul(FromInt(account_balance), risk_per_trade)
      IN  IF RLe(position_size, FromInt(0)) THEN <<>>
          ELSE <<[symbol |-> symbol,
                  side |-> side,
                  position_size |-> position_size,
                  entry_price |-> current_price,
                  stop_loss |-> sltp[1],
                  take_profit |-> sltp[2],
                  risk_amount |-> risk_amount,
                  reward_amount |-> RMul(risk_amount, risk_reward_ratio),
                  risk_reward_ratio |-> risk_reward_ratio,
                  account_balance |-> account_balance,
                  risk_percentage |-> RMul(risk_per_trade, FromInt(100)),
                  signal_confidence |-> signal.confidence]>>

\* calculate_position_parameters: <<>> for None, <<position_params>> otherwise.
calculate_position_parameters(active, signal, env) ==
    IF ~env.position_amount.ok THEN <<>>                        \* except, line 105
    ELSE IF ~can_open_position(active, env.position_amount.v) THEN <<>>
    ELSE IF ~env.balance.ok THEN <<>>
    ELSE IF env.balance.v <= 0 THEN <<>>
    ELSE IF ~env.price.ok THEN <<>>
    ELSE IF env.price.v <= 0 THEN <<>>
    ELSE IF ~env.price_again.ok THEN <<>>                       \* raised at line 186
    ELSE
      LET account_balance == env.balance.v
          current_price == env.price.v
          side == IF signal.type = "bullish" THEN "BUY" ELSE "SELL"
          sltp == calculate_sl_tp(current_price, side, env.klines)
          position_size == calculate_position_size_clamped(
                               account_balance, current_price, sltp[1], env.price_again.v)
          risk_amount == RMul(FromInt(account_balance), risk_per_trade)
      IN  IF RLe(position_size, FromInt(0)) THEN <<>>
          ELSE <<[symbol |-> symbol,
                  side |-> side,
                  position_size |-> position_size,
                  entry_price |-> current_price,
                  stop_loss |-> sltp[1],
                  take_profit |-> sltp[2],
                  risk_amount |-> risk_amount,
                  reward_amount |-> RMul(risk_amount, risk_reward_ratio),
                  risk_reward_ratio |-> risk_reward_ratio,
                  account_balance |-> account_balance,
                  risk_percentage |-> RMul(risk_per_trade, FromInt(100)),
                  signal_confidence |-> signal.confidence]>>

\* validate_position on a complete parameter dict
\* What validate_position returns when a statement of its try block raised.
validation_raised(errors, warnings) ==
    [valid |-> FALSE, warnings |-> warnings, errors |-> errors \cup {"validation_error"}]

\* validate_position; a key the dict lacks is a field the record lacks.
validate_position(pp) ==
    LET Has(field) == field \in DOMAIN pp
        size_errors ==
            IF RLe(pp.position_size, FromInt(0)) THEN {"size_not_positive"} ELSE {}
        entry == FromInt(pp.entry_price)
        errors ==
            size_errors
            \cup (IF pp.side = "BUY" /\ RLe(entry, pp.stop_loss) THEN {"sl_not_below_entry"} ELSE {})
            \cup (IF pp.side = "BUY" /\ RLe(pp.take_profit, entry) THEN {"tp_not_above_entry"} ELSE {})
            \cup (IF pp.side # "BUY" /\ RLe(pp.stop_loss, entry) THEN {"sl_not_above_entry"} ELSE {})
            \cup (IF pp.side # "BUY" /\ RLe(entry, pp.take_profit) THEN {"tp_not_below_entry"} ELSE {})
        high_risk == RLt(RMul(FromInt(pp.account_balance), <<1, 10>>), pp.risk_amount)
        confidence == IF Has("signal_confidence") THEN pp.signal_confidence ELSE 0
        warnings ==
            (IF high_risk THEN {"high_risk_amount"} ELSE {})
            \cup (IF confidence < 60 THEN {"low_confidence"} ELSE {})
    IN  IF ~Has("position_size") THEN validation_raised({}, {})          \* line 202
        ELSE IF ~(Has("entry_price") /\ Has("stop_loss") /\ Has("take_profit") /\ Has("side"))
        THEN validation_raised(size_errors, {})                          \* lines 207-210
        ELSE IF ~(Has("risk_amount") /\ Has("account_balance"))
        THEN validation_raised(errors, {})                               \* lines 228-229
        \* risk_amount/account_balance in the warning text, line 232
        ELSE IF high_risk /\ pp.account_balance = 0
        THEN validation_raised(errors, {})
        ELSE [valid |-> errors = {}, warnings |-> warnings, errors |-> errors]

\* register_position: the active set it leaves
register_position(active, position_id, pp) ==
    LET position == [position_id |-> position_id, status |-> "active",
                     unrealized_pnl |-> FromInt(0)] @@ pp
    IN  (position_id :> position) @@ active

\* The long formula used for either side.
PnL_long_only(position, price) ==
    RMul(RSub(FromInt(price), FromInt(position.entry_price)), position.position_size)

PnL(position, price) ==
    IF position.side = "BUY"
    THEN RMul(RSub(FromInt(price), FromInt(position.entry_price)), position.position_size)
    ELSE RMul(RSub(FromInt(position.entry_price), FromInt(price)), position.position_size)

\* update_position_pnl zeroing the unrealized PnL when the price read fails.
update_position_pnl_zero_on_failure(active, position_id, price) ==
    IF ~price.ok
    THEN [active EXCEPT ![position_id] = [unrealized_pnl |-> FromInt(0)] @@ @]
    ELSE [active EXCEPT ![position_id] =
              [unrealized_pnl |-> PnL(@, price.v), current_price |-> price.v] @@ @]

\* update_position_pnl on an active id, given get_current_price's answer:
\* the active set it leaves
update_position_pnl(active, position_id, price) ==
    IF ~price.ok THEN active                                    \* except, line 288
    ELSE [active EXCEPT ![position_id] =
              [unrealized_pnl |-> PnL(@, price.v), current_price |-> price.v] @@ @]

\* what update_position_pnl returns: <<>> for None
update_position_pnl_result(active, position_id, price) ==
    IF position_id \notin DOMAIN active \/ ~price.ok THEN <<>>
    \* entry_price * position_size = 0: the division of line 285 raises
    \* after lines 276-278 updated the position
    ELSE IF RMul(FromInt(active[position_id].entry_price),
                 active[position_id].position_size)[1] = 0 THEN <<>>
    ELSE LET position == active[position_id]
             unrealized_pnl == PnL(position, price.v)
         IN  <<[position_id |-> position_id,
                unrealized_pnl |-> unrealized_pnl,
                current_price |-> price.v,
                entry_price |-> position.entry_price,
                pnl_percentage |->
                    RMul(RDiv(unrealized_pnl,
                              RMul(FromInt(position.entry_price), position.position_size)),
                         FromInt(100))]>>

\* check_stop_loss_take_profit missing a price exactly at the stop or target.
check_stop_loss_take_profit_strict(active, position_id, price) ==
    IF position_id \notin DOMAIN active THEN "None"
    ELSE IF ~price.ok THEN "None"
    ELSE
      LET position == active[position_id]
          current_price == FromInt(price.v)
      IN  IF position.side = "BUY"
          THEN IF RLt(current_price, position.stop_loss) THEN "stop_loss"
               ELSE IF RLt(position.take_profit, current_price) THEN "take_profit"
               ELSE "None"
          ELSE IF RLt(position.stop_loss, current_price) THEN "stop_loss"
               ELSE IF RLt(current_price, position.take_profit) THEN "take_profit"
               ELSE "None"

\* check_stop_loss_take_profit: "stop_loss", "take_profit" or "None"
check_stop_loss_take_profit(active, position_id, price) ==
    IF position_id \notin DOMAIN active THEN "None"
    ELSE IF ~price.ok THEN "None"                               \* except, line 318
    ELSE
      LET position == active[position_id]
          current_price == FromInt(price.v)
      IN  IF position.side = "BUY"
          THEN IF RLe(current_price, position.stop_loss) THEN "stop_loss"
               ELSE IF RLe(position.take_profit, current_price) THEN "take_profit"
               ELSE "None"
          ELSE IF RLe(position.stop_loss, current_price) THEN "stop_loss"
               ELSE IF RLe(current_price, position.take_profit) THEN "take_profit"
               ELSE "None"

\* The record close_position appends to trade_history.
closed_record(position, reason, exit_price) ==
    [status |-> "closed", exit_price |-> exit_price,
     realized_pnl |-> PnL(position, exit_price), close_reason |-> reason] @@ position

Remove(active, position_id) ==
    [id \in DOMAIN active \ {position_id} |-> active[id]]

\* close_position logging a record for an id it does not know.
close_position_records_unknown(active, history, position_id, reason, exit_price) ==
    IF position_id \notin DOMAIN active
    THEN [active_positions |-> active,
          trade_history |-> Append(history, [position_id |-> position_id,
                                             status |-> "closed",
                                             close_reason |-> reason,
                                             exit_price |-> exit_price]),
          ret |-> <<>>]
    ELSE [active_positions |-> Remove(active, position_id),
          trade_history |-> Append(history,
                                   closed_record(active[position_id], reason, exit_price)),
          ret |-> <<PnL(active[position_id], exit_price)>>]

\* close_position: the active set and the history it leaves and what it
\* returns, <<>> for None.
close_position(active, history, position_id, reason, exit_price) ==
    IF position_id \notin DOMAIN active
    THEN [active_positions |-> active, trade_history |-> history, ret |-> <<>>]
    ELSE [active_positions |-> Remove(active, position_id),
          trade_history |-> Append(history,
                                   closed_record(active[position_id], reason, exit_price)),
          ret |-> <<PnL(active[position_id], exit_price)>>]

(***************************************************************************)
(* What a caller can tell about a call from the event alone.               *)
(***************************************************************************)
\* floor(t / T) * T with T the timeframe in milliseconds.
Bucket(t) == (t \div TimeframeMs) * TimeframeMs

\* The event reaches the bucketing step (lines 67-77).
ReachesBucketing(ev) ==
    ev.defect \notin {"ts_missing", "ts_invalid", "qty_missing", "ibm_missing"}

\* The event's quantity is added to the delta (lines 94-95 run).
Applied(ev) == ReachesBucketing(ev) /\ ev.defect # "qty_invalid"

SignedQuantity(ev) == IF Truthy(ev) THEN 0 - ev.quantity ELSE ev.quantity

SetCvd(S) ==
    /\ current_candle_delta' = S.current_candle_delta
    /\ current_candle_start_time' = S.current_candle_start_time
    /\ cvd_history' = S.cvd_history
    /\ cumulative_cvd' = S.cumulative_cvd
    /\ current_candle_data' = S.current_candle_data
    /\ cvd_pivots_high' = S.cvd_pivots_high
    /\ cvd_pivots_low' = S.cvd_pivots_low

ObserveTrade(ev) ==
    /\ n_calls' = n_calls + 1
    /\ net_applied' = IF Applied(ev) THEN net_applied + SignedQuantity(ev) ELSE net_applied
    /\ n_closed' = IF /\ ReachesBucketing(ev)
                      /\ current_candle_start_time # None
                      /\ Bucket(ev.timestamp) # current_candle_start_time
                   THEN n_closed + 1 ELSE n_closed

Init ==
    /\ current_candle_delta = CvdConstructed.current_candle_delta
    /\ current_candle_start_time = CvdConstructed.current_candle_start_time
    /\ cvd_history = CvdConstructed.cvd_history
    /\ cumulative_cvd = CvdConstructed.cumulative_cvd
    /\ current_candle_data = CvdConstructed.current_candle_data
    /\ cvd_pivots_high = CvdConstructed.cvd_pivots_high
    /\ cvd_pivots_low = CvdConstructed.cvd_pivots_low
    /\ n_calls = 0
    /\ net_applied = 0
    /\ n_closed = 0
    /\ last_ev = NoEvent
    /\ active_positions = <<>>
    /\ trade_history = <<>>
    /\ position_params = <<>>
    /\ risk_ret = [op |-> "none"]
    /\ n_risk_ops = 0
    /\ price_data = <<>>
    /\ last_update = None
    /\ price_pivots_high = <<>>
    /\ price_pivots_low = <<>>
    /\ sig_ret = [op |-> "none"]
    /\ pc = Idle
    /\ klines_cache = <<>>
    /\ funding_rate_cache = <<>>
    /\ open_interest_cache = <<>>
    /\ now = 0
    /\ data_ret = [op |-> "none"]
    /\ n_data_ops = 0

(***************************************************************************)
(* SpecCVD: the aggregator driven by well-formed trades and by reset().    *)
(***************************************************************************)
ProcessTrade(ev) ==
    /\ n_calls < MaxTrades
    /\ SetCvd(process_trade(CvdState, ev))
    /\ ObserveTrade(ev)
    /\ UNCHANGED <<last_ev, riskVars, callerVars, sigVars, taskVars, dataVars>>

Reset ==
    /\ n_calls < MaxTrades
    /\ SetCvd(reset(CvdState))
    /\ n_calls' = n_calls + 1
    /\ net_applied' = 0
    /\ n_closed' = 0
    /\ UNCHANGED <<last_ev, riskVars, callerVars, sigVars, taskVars, dataVars>>

WellFormedTrade == \E ev \in WellFormedEvents : ProcessTrade(ev)

NextCVD ==
    \/ WellFormedTrade
    \/ Reset

SpecCVD == Init /\ [][NextCVD]_vars

(***************************************************************************)
(* SpecCVDStep: the same calls, a few of them, each recording its event,   *)
(* with every kind of malformed event.                                     *)
(***************************************************************************)
TracedTrade(ev) ==
    /\ n_calls < MaxSteps
    /\ SetCvd(process_trade(CvdState, ev))
    /\ ObserveTrade(ev)
    /\ last_ev' = ev
    /\ UNCHANGED <<riskVars, callerVars, sigVars, taskVars, dataVars>>

TracedWellFormedTrade == \E ev \in WellFormedEvents : TracedTrade(ev)

TracedMalformedTrade == \E ev \in MalformedEvents : TracedTrade(ev)

TracedReset ==
    /\ n_calls < MaxSteps
    /\ SetCvd(reset(CvdState))
    /\ n_calls' = n_calls + 1
    /\ net_applied' = 0
    /\ n_closed' = 0
    /\ last_ev' = NoEvent
    /\ UNCHANGED <<riskVars, callerVars, sigVars, taskVars, dataVars>>

NextCVDStep ==
    \/ TracedWellFormedTrade
    \/ TracedMalformedTrade
    \/ TracedReset

SpecCVDStep == Init /\ [][NextCVDStep]_vars

\* A step of SpecCVDStep that is a process_trade call.
TradeCall == n_calls' = n_calls + 1 /\ last_ev' # NoEvent

(***************************************************************************)
(* RiskManager calls.  CalculatePositionParameters, RegisterPosition are   *)
(* the calls themselves; the specifications below wrap them.               *)
(***************************************************************************)
MaxRiskOps == 4

CalculatePositionParameters(signal, env) ==
    /\ position_params' = calculate_position_parameters(active_positions, signal, env)
    /\ risk_ret' = [op |-> "calculate_position_parameters", v |-> position_params',
                    position_amount |-> env.position_amount,
                    balance |-> env.balance, price |-> env.price]
    /\ UNCHANGED <<riskVars, cvdVars, obsVars, sigVars, taskVars, dataVars>>

\* register_position(position_id, pp)
RegisterGivenPosition(position_id, pp) ==
    /\ active_positions' = register_position(active_positions, position_id, pp)
    /\ risk_ret' = [op |-> "register_position", v |-> position_id]
    /\ UNCHANGED <<trade_history, position_params, cvdVars, obsVars, sigVars, taskVars, dataVars>>

\* The caller registers the parameters it was last given.
RegisterPosition(position_id) ==
    /\ position_params # <<>>
    /\ RegisterGivenPosition(position_id, position_params[1])

ValidatePosition ==
    /\ position_params # <<>>
    /\ risk_ret' = [op |-> "validate_position", pp |-> position_params[1],
                    v |-> validate_position(position_params[1])]
    /\ UNCHANGED <<riskVars, position_params, cvdVars, obsVars, sigVars, taskVars, dataVars>>

\* validate_position(pp) on a parameter set of the caller's
ValidateGivenPosition(pp) ==
    /\ risk_ret' = [op |-> "validate_position", pp |-> pp, v |-> validate_position(pp)]
    /\ UNCHANGED <<riskVars, position_params, n_risk_ops, cvdVars, obsVars, sigVars, taskVars, dataVars>>

UpdatePositionPnl(position_id, price) ==
    /\ active_positions' =
           IF position_id \in DOMAIN active_positions
           THEN update_position_pnl(active_positions, position_id, price)
           ELSE active_positions
    /\ risk_ret' = [op |-> "update_position_pnl",
                    position_id |-> position_id, price |-> price,
                    v |-> update_position_pnl_result(active_positions, position_id, price)]
    /\ UNCHANGED <<trade_history, position_params, cvdVars, obsVars, sigVars, taskVars, dataVars>>

CheckStopLossTakeProfit(position_id, price) ==
    /\ risk_ret' = [op |-> "check_stop_loss_take_profit",
                    position_id |-> position_id, price |-> price,
                    v |-> check_stop_loss_take_profit(active_positions, position_id, price)]
    /\ UNCHANGED <<riskVars, position_params, cvdVars, obsVars, sigVars, taskVars, dataVars>>

ClosePosition(position_id, reason, exit_price) ==
    LET r == close_position(active_positions, trade_history, position_id, reason, exit_price)
    IN  /\ active_positions' = r.active_positions
        /\ trade_history' = r.trade_history
        /\ risk_ret' = [op |-> "close_position", position_id |-> position_id,
                        reason |-> reason, exit_price |-> exit_price, v |-> r.ret]
        /\ UNCHANGED <<position_params, cvdVars, obsVars, sigVars, taskVars, dataVars>>

RiskOp == n_risk_ops < MaxRiskOps /\ n_risk_ops' = n_risk_ops + 1

(***************************************************************************)
(* SpecRisk: positions followed through their life in a quiet market.      *)
(***************************************************************************)
RiskCalculate ==
    \E signal \in Signals, env \in QuietEnvs :
        RiskOp /\ CalculatePositionParameters(signal, env)

RiskValidate == RiskOp /\ ValidatePosition

RiskRegister == \E position_id \in PositionIds : RiskOp /\ RegisterPosition(position_id)

RiskUpdatePnl ==
    \E position_id \in PositionIds, price \in {Fail} \cup {Ok(p) : p \in MonitorPrices} :
        RiskOp /\ UpdatePositionPnl(position_id, price)

RiskCheckSlTp ==
    \E position_id \in PositionIds, price \in {Fail} \cup {Ok(p) : p \in MonitorPrices} :
        RiskOp /\ CheckStopLossTakeProfit(position_id, price)

RiskRegisterGiven ==
    \E position_id \in PositionIds, pp \in GivenParams :
        RiskOp /\ RegisterGivenPosition(position_id, pp)

RiskClose ==
    \E position_id \in PositionIds, reason \in CloseReasons, exit_price \in ExitPrices :
        RiskOp /\ ClosePosition(position_id, reason, exit_price)

NextRisk ==
    \/ RiskCalculate
    \/ RiskValidate
    \/ RiskRegister
    \/ RiskRegisterGiven
    \/ RiskUpdatePnl
    \/ RiskCheckSlTp
    \/ RiskClose

SpecRisk == Init /\ [][NextRisk]_vars

(***************************************************************************)
(* SpecSizing: calculate_position_parameters under every provider answer,  *)
(* with and without a registered position.                                 *)
(***************************************************************************)
SizingCalculate ==
    \E signal \in StrongSignals, env \in SizingEnvs :
        CalculatePositionParameters(signal, env) /\ UNCHANGED n_risk_ops

SizingRegister ==
    \E position_id \in PositionIds : RegisterPosition(position_id) /\ UNCHANGED n_risk_ops

NextSizing ==
    \/ SizingCalculate
    \/ SizingRegister

SpecSizing == Init /\ [][NextSizing]_vars

(***************************************************************************)
(* Inputs of the signal runs.                                              *)
(***************************************************************************)
\* One trade per candle: the i-th trade moves the CVD by deltas[i].
TradeScript(deltas) ==
    [i \in 1..Len(deltas) |->
        [timestamp |-> (i - 1) * TimeframeMs,
         quantity |-> Abs(deltas[i]),
         is_buyer_maker |-> deltas[i] < 0,
         defect |-> "none"]]

TradeScripts ==
    {TradeScript(deltas) : deltas \in
        {<<>>,
         <<100, 200, 0 - 100, 100, 1>>,
         <<300, 200, 0 - 300, 100, 0 - 200, 1>>,
         <<100, 200, 0 - 200, 400, 0 - 300, 1>>,
         <<300, 0 - 200, 200, 0 - 100, 200, 1>>,
         <<300, 0 - 100, 100, 0 - 200, 300, 1>>}}

RECURSIVE Replay(_, _)
\* process_trade called on each event of the script in turn.
Replay(S, script) ==
    IF script = <<>> THEN S ELSE Replay(process_trade(S, Head(script)), Tail(script))

RECURSIVE SumSigned(_)
SumSigned(script) ==
    IF script = <<>> THEN 0 ELSE SignedQuantity(Head(script)) + SumSigned(Tail(script))

\* Klines whose high is given and whose low is 10 below it.
PriceCandles(highs) ==
    [i \in 1..Len(highs) |->
        [open_time |-> (i - 1) * TimeframeMs, high |-> highs[i], low |-> highs[i] - 10]]

PriceSeries ==
    {PriceCandles(highs) : highs \in
        {<<>>, <<100>>, <<100, 110>>,
         <<90, 100, 90, 110, 90>>,
         <<90, 100, 90, 95, 90>>,
         <<90, 100, 90, 100, 90>>,
         <<110, 100, 110, 95, 110>>,
         <<110, 95, 110, 100, 110>>}}

SignalEnvs ==
    [seconds : {30, 60},
     klines : {NoKlines} \cup {Ok(series) : series \in PriceSeries},
     funding : {Fail, Ok(high_funding_threshold), Ok(low_funding_threshold)},
     open_interest : {Fail, Ok(1)},
     price : {Fail, Ok(90), Ok(110)},
     price_for_log : {Fail, Ok(100)}]

\* Price pivot lists a caller may hand to detect_cvd_divergence.
PivotPrices == {95, 100, 110}
MaxPricePivots == 3
PricePivotLists ==
    UNION {[1..n -> {<<0, p>> : p \in PivotPrices}] : n \in 0..MaxPricePivots}

(***************************************************************************)
(* SpecSignal: the detector called on an aggregator that has consumed one  *)
(* of the trade scripts.                                                   *)
(***************************************************************************)
InitSignal ==
    \E script \in TradeScripts :
        LET S == Replay(CvdConstructed, script)
        IN  /\ current_candle_delta = S.current_candle_delta
            /\ current_candle_start_time = S.current_candle_start_time
            /\ cvd_history = S.cvd_history
            /\ cumulative_cvd = S.cumulative_cvd
            /\ current_candle_data = S.current_candle_data
            /\ cvd_pivots_high = S.cvd_pivots_high
            /\ cvd_pivots_low = S.cvd_pivots_low
            /\ n_calls = Len(script)
            /\ net_applied = SumSigned(script)
            /\ n_closed = Max(Len(script) - 1, 0)
            /\ last_ev = NoEvent
            /\ active_positions = <<>>
            /\ trade_history = <<>>
            /\ position_params = <<>>
            /\ risk_ret = [op |-> "none"]
            /\ n_risk_ops = 0
            /\ price_data = <<>>
            /\ last_update = None
            /\ price_pivots_high = <<>>
            /\ price_pivots_low = <<>>
            /\ sig_ret = [op |-> "none"]
            /\ pc = Idle
            /\ klines_cache = <<>>
            /\ funding_rate_cache = <<>>
            /\ open_interest_cache = <<>>
            /\ now = 0
            /\ data_ret = [op |-> "none"]
            /\ n_data_ops = 0

SetDetector(D) ==
    /\ price_data' = D.price_data
    /\ last_update' = D.last_update
    /\ price_pivots_high' = D.price_pivots_high
    /\ price_pivots_low' = D.price_pivots_low

DetectCvdDivergence(price_pivots, divergence_type) ==
    /\ sig_ret' = [op |-> "detect_cvd_divergence",
                   price_pivots |-> price_pivots,
                   divergence_type |-> divergence_type,
                   v |-> detect_cvd_divergence(CvdState, price_pivots, divergence_type)]
    /\ UNCHANGED <<detectorVars, cvdVars, obsVars, riskVars, callerVars, taskVars, dataVars>>

\* The provider calls made during an evaluation that raised: the klines
\* refresh of update_price_data, get_funding_rate, get_open_interest, the
\* get_current_price of the confirmation and the one before the log.
failed_calls(D, r, env) ==
    {call \in {"klines", "funding_rate", "open_interest", "current_price"} :
        \/ /\ call = "klines"
           /\ D.last_update = None \/ env.seconds >= RefreshSeconds
           /\ ~env.klines.ok
        \/ call = "funding_rate" /\ "funding_rate" \in r.checks /\ ~env.funding.ok
        \/ call = "open_interest" /\ "open_interest" \in r.checks
                                  /\ ~env.open_interest.ok
        \/ call = "current_price" /\ "confirmation" \in r.checks
                                  /\ Len(r.D.price_data) >= 2 /\ ~env.price.ok
        \/ call = "current_price" /\ r.signal.valid /\ ~env.price_for_log.ok}

CheckBearishSignal(env) ==
    LET r == check_bearish_signal(DetectorState, CvdState, env)
    IN  /\ SetDetector(r.D)
        /\ sig_ret' = [op |-> "check_bearish_signal", v |-> r.signal, checks |-> r.checks,
                       events |-> r.events,
                       failed |-> failed_calls(DetectorState, r, env)]
        /\ UNCHANGED <<cvdVars, obsVars, riskVars, callerVars, taskVars, dataVars>>

CheckBullishSignal(env) ==
    LET r == check_bullish_signal(DetectorState, CvdState, env)
    IN  /\ SetDetector(r.D)
        /\ sig_ret' = [op |-> "check_bullish_signal", v |-> r.signal, checks |-> r.checks,
                       events |-> r.events,
                       failed |-> failed_calls(DetectorState, r, env)]
        /\ UNCHANGED <<cvdVars, obsVars, riskVars, callerVars, taskVars, dataVars>>

SignalDivergence ==
    \E price_pivots \in PricePivotLists, divergence_type \in {"bearish", "bullish"} :
        DetectCvdDivergence(price_pivots, divergence_type)

SignalBearish == \E env \in SignalEnvs : CheckBearishSignal(env)

SignalBullish == \E env \in SignalEnvs : CheckBullishSignal(env)

NextSignal ==
    \/ SignalBearish
    \/ SignalBullish

SpecSignal == InitSignal /\ [][NextSignal]_vars

(***************************************************************************)
(* SpecDivergence: detect_cvd_divergence called with any short list of     *)
(* price pivots on an aggregator that has consumed one of the scripts.     *)
(***************************************************************************)
SpecDivergence == InitSignal /\ [][SignalDivergence]_vars

(***************************************************************************)
(* C1: after any sequence of RiskManager operations the number of active   *)
(* positions is at most max_positions and no two active positions share a  *)
(* symbol.                                                                 *)
(* Violated: register_position checks nothing.  Two parameter sets         *)
(* obtained while nothing is registered, or one set registered under two   *)
(* ids, leave two active positions on the one symbol.                      *)
(***************************************************************************)
ActiveIds == {id \in DOMAIN active_positions : active_positions[id].status = "active"}

C1_PositionLimitAndOnePerSymbol ==
    /\ Cardinality(ActiveIds) <= max_positions
    /\ \A a, b \in ActiveIds :
           a # b => active_positions[a].symbol # active_positions[b].symbol

(***************************************************************************)
(* C2: every parameter set calculate_position_parameters returns has       *)
(* min_position_size <= position_size <= account_balance * 0.5 / entry.    *)
(* Violated: the clamp is max(min, min(size, max)), so the minimum wins    *)
(* when the balance is too small for it; and the maximum is computed from  *)
(* a second price read, which may differ from the entry price or be 0.     *)
(***************************************************************************)
C2_PositionSizeWithinBounds ==
    position_params # <<>> =>
        LET pp == position_params[1]
        IN  /\ RLe(min_position_size, pp.position_size)
            /\ RLe(pp.position_size,
                   RDiv(RMul(FromInt(pp.account_balance), max_position_pct),
                        FromInt(pp.entry_price)))

\* The spec's own example: balance 10000, entry 100, stop 98 gives size 50.
C2_SpecExampleReached ==
    /\ position_params # <<>>
    /\ position_params[1].account_balance = 10000
    /\ position_params[1].entry_price = 100
    /\ position_params[1].stop_loss = FromInt(98)
    /\ position_params[1].position_size = FromInt(50)

(***************************************************************************)
(* C3: a process_trade call on a malformed event (a missing or invalid     *)
(* timestamp, quantity, is_buyer_maker or price field) leaves all          *)
(* aggregator state exactly as it was before the call.                     *)
(* Violated: an invalid quantity raises only at line 81, after the old     *)
(* candle was closed, the new one initialised and trade_count incremented; *)
(* a missing price raises only at line 97, after the whole trade was       *)
(* applied; a non-bool is_buyer_maker raises nothing and is applied.       *)
(***************************************************************************)
C3_MalformedTradeLeavesStateUnchanged ==
    [][(TradeCall /\ last_ev' \in MalformedEvents) => UNCHANGED cvdVars]_vars

(***************************************************************************)
(* C4: get_current_cvd() equals the net signed quantity (+q buyer          *)
(* aggressor, -q seller aggressor) of every trade applied since            *)
(* construction or reset, whatever the candle boundaries and whatever was  *)
(* evicted from the history.                                               *)
(***************************************************************************)
C4_CurrentCvdIsNetAppliedQuantity ==
    get_current_cvd(CvdState) = net_applied

\* A candle has been evicted from the history and a trade of the candle in
\* progress, not yet closed, is part of the value.
C4_Witness ==
    /\ n_closed > Len(cvd_history)
    /\ current_candle_delta # 0
    /\ get_current_cvd(CvdState) # cumulative_cvd
    /\ net_applied # 0

(***************************************************************************)
(* C5: the current candle bucket satisfies delta = buy_volume -            *)
(* sell_volume and total_volume = buy_volume + sell_volume, and so does    *)
(* every history entry.                                                    *)
(***************************************************************************)
VolumesConsistent(c) ==
    /\ c.delta = c.buy_volume - c.sell_volume
    /\ c.total_volume = c.buy_volume + c.sell_volume

C5_DeltaAndVolumeIdentities ==
    /\ VolumesConsistent(current_candle_data)
    /\ \A i \in 1..Len(cvd_history) : VolumesConsistent(cvd_history[i])

\* Buys and sells in a closed candle and in the candle in progress.
C5_Witness ==
    /\ cvd_history # <<>>
    /\ cvd_history[1].buy_volume > 0
    /\ cvd_history[1].sell_volume > 0
    /\ current_candle_data.buy_volume > 0
    /\ current_candle_data.sell_volume > 0

(***************************************************************************)
(* C6: for consecutive retained history entries the later cumulative_cvd   *)
(* is the earlier cumulative_cvd plus the later delta; the first candle    *)
(* closed after construction or reset has cumulative_cvd = its delta.      *)
(***************************************************************************)
C6_CumulativeCvdChain ==
    /\ \A i \in 2..Len(cvd_history) :
           cvd_history[i].cumulative_cvd =
               cvd_history[i - 1].cumulative_cvd + cvd_history[i].delta
    /\ (cvd_history # <<>> /\ n_closed = Len(cvd_history)) =>
           cvd_history[1].cumulative_cvd = cvd_history[1].delta

\* Two candles closed since a reset.
C6_Witness ==
    /\ Len(cvd_history) = 2
    /\ n_closed = 2
    /\ n_calls = 4
    /\ cvd_history[1].delta # 0
    /\ cvd_history[2].delta # 0

(***************************************************************************)
(* C7: for a trade at timestamp t (ms) and timeframe T (ms), process_trade *)
(* accumulates the trade into the candle with open_time = floor(t/T)*T and *)
(* close_time = open_time + T - 1; a trade whose timestamp lies in the     *)
(* current candle's [open_time, close_time] goes to that same bucket.      *)
(***************************************************************************)
C7_BucketOfLastTrade ==
    last_ev \in WellFormedEvents =>
        /\ current_candle_data.open_time = Bucket(last_ev.timestamp)
        /\ current_candle_data.close_time = current_candle_data.open_time + TimeframeMs - 1
        /\ current_candle_start_time = current_candle_data.open_time
        /\ current_candle_data.trade_count >= 1

C7_SameBucketStep ==
    (/\ TradeCall
     /\ last_ev' \in WellFormedEvents
     /\ current_candle_start_time # None
     /\ current_candle_data.open_time <= last_ev'.timestamp
     /\ last_ev'.timestamp <= current_candle_data.close_time)
    => /\ cvd_history' = cvd_history
       /\ current_candle_start_time' = current_candle_start_time
       /\ current_candle_data'.open_time = current_candle_data.open_time
       /\ current_candle_data'.trade_count = current_candle_data.trade_count + 1

C7_CandleBucketing == []C7_BucketOfLastTrade /\ [][C7_SameBucketStep]_vars

\* The last trade fell on the last millisecond of the second candle, which
\* already held a trade.
C7_Witness ==
    /\ last_ev \in WellFormedEvents
    /\ last_ev.timestamp = 2 * TimeframeMs - 1
    /\ current_candle_data.open_time = TimeframeMs
    /\ current_candle_data.trade_count = 2

(***************************************************************************)
(* C8: a well-formed trade of quantity q increments trade_count by 1 and   *)
(* total_volume by q; with is_buyer_maker it subtracts q from delta and    *)
(* adds q to sell_volume (buy_volume unchanged), otherwise it adds q to    *)
(* delta and to buy_volume (sell_volume unchanged).  The counters are      *)
(* those of the trade's bucket: the current one, or zero for a new one.    *)
(***************************************************************************)
C8_Step ==
    (TradeCall /\ last_ev' \in WellFormedEvents) =>
        LET ev == last_ev'
            before == IF current_candle_start_time = Bucket(ev.timestamp)
                      THEN current_candle_data
                      ELSE NewCandleData(Bucket(ev.timestamp),
                                         Bucket(ev.timestamp) + TimeframeMs - 1)
            after == current_candle_data'
        IN  /\ after.trade_count = before.trade_count + 1
            /\ after.total_volume = before.total_volume + ev.quantity
            /\ ev.is_buyer_maker =>
                   /\ after.delta = before.delta - ev.quantity
                   /\ after.sell_volume = before.sell_volume + ev.quantity
                   /\ after.buy_volume = before.buy_volume
            /\ ~ev.is_buyer_maker =>
                   /\ after.delta = before.delta + ev.quantity
                   /\ after.buy_volume = before.buy_volume + ev.quantity
                   /\ after.sell_volume = before.sell_volume

C8_TradeClassification == [][C8_Step]_vars

\* A seller-aggressor trade of 2 applied to a bucket holding a buy of 1.
C8_Witness ==
    /\ last_ev \in WellFormedEvents
    /\ last_ev.is_buyer_maker
    /\ last_ev.quantity = 2
    /\ current_candle_data.buy_volume = 1
    /\ current_candle_data.sell_volume = 2
    /\ current_candle_data.delta = 0 - 1
    /\ current_candle_data.trade_count = 2

(***************************************************************************)
(* C9: detect_cvd_divergence returns true iff there are at least 2 price   *)
(* pivots and at least 2 CVD pivots of the matching polarity (highs for    *)
(* bearish, lows for bullish) and, of the last two of each, the later      *)
(* price pivot is strictly higher and the later CVD pivot high strictly    *)
(* lower (bearish), or the later price pivot is strictly lower and the     *)
(* later CVD pivot low strictly higher (bullish).                          *)
(***************************************************************************)
Last(q) == q[Len(q)]
Prev(q) == q[Len(q) - 1]

C9_Expected(price_pivots, divergence_type) ==
    IF divergence_type = "bearish"
    THEN /\ Len(price_pivots) >= 2
         /\ Len(cvd_pivots_high) >= 2
         /\ Last(price_pivots)[2] > Prev(price_pivots)[2]
         /\ Last(cvd_pivots_high).cvd_value < Prev(cvd_pivots_high).cvd_value
    ELSE /\ Len(price_pivots) >= 2
         /\ Len(cvd_pivots_low) >= 2
         /\ Last(price_pivots)[2] < Prev(price_pivots)[2]
         /\ Last(cvd_pivots_low).cvd_value > Prev(cvd_pivots_low).cvd_value

C9_DivergenceIffLastTwoPivotsDiverge ==
    sig_ret.op = "detect_cvd_divergence" =>
        (sig_ret.v <=> C9_Expected(sig_ret.price_pivots, sig_ret.divergence_type))

\* Prices 100 then 110 against CVD highs 500 then 300: bearish divergence.
C9_Witness ==
    /\ sig_ret.op = "detect_cvd_divergence"
    /\ sig_ret.divergence_type = "bearish"
    /\ Len(sig_ret.price_pivots) >= 2
    /\ Prev(sig_ret.price_pivots)[2] = 100
    /\ Last(sig_ret.price_pivots)[2] = 110
    /\ Len(cvd_pivots_high) >= 2
    /\ Prev(cvd_pivots_high).cvd_value = 500
    /\ Last(cvd_pivots_high).cvd_value = 300
    /\ sig_ret.v = TRUE

(***************************************************************************)
(* C10: when fewer than two price pivot highs exist, or the most recent    *)
(* one is not strictly greater than the one before, check_bearish_signal   *)
(* returns valid = false with confidence 0 and makes no divergence,        *)
(* funding, open-interest or confirmation check; check_bullish_signal      *)
(* does the same when the last two pivot lows are not strictly decreasing. *)
(***************************************************************************)
LaterChecks == {"cvd_divergence", "funding_rate", "open_interest", "confirmation"}

C10_Gated ==
    /\ sig_ret.v.valid = FALSE
    /\ sig_ret.v.confidence = 0
    /\ sig_ret.checks \cap LaterChecks = {}

C10_PriceStructureGate ==
    /\ (/\ sig_ret.op = "check_bearish_signal"
        /\ \/ Len(price_pivots_high) < 2
           \/ Last(price_pivots_high)[2] <= Prev(price_pivots_high)[2])
       => C10_Gated
    /\ (/\ sig_ret.op = "check_bullish_signal"
        /\ \/ Len(price_pivots_low) < 2
           \/ Last(price_pivots_low)[2] >= Prev(price_pivots_low)[2])
       => C10_Gated

\* Pivot highs 100 then 95 while the CVD highs diverge (500 then 300).
C10_Witness ==
    /\ sig_ret.op = "check_bearish_signal"
    /\ Len(price_pivots_high) >= 2
    /\ Prev(price_pivots_high)[2] = 100
    /\ Last(price_pivots_high)[2] = 95
    /\ Len(cvd_pivots_high) >= 2
    /\ Last(cvd_pivots_high).cvd_value < Prev(cvd_pivots_high).cvd_value
    /\ sig_ret.v.valid = FALSE
    /\ sig_ret.v.confidence = 0

(***************************************************************************)
(* C11 as stated: for every signal returned by check_bearish_signal or     *)
(* check_bullish_signal, confidence equals the sum of the fixed weights of *)
(* the conditions that hold (structure 25, divergence 35, funding          *)
(* extremity 20, OI trend 10, confirmation 10), lies in 0..100, and valid  *)
(* is true iff both gating conditions hold and that sum is >= 60.          *)
(* Violated: a signal whose structure condition holds and whose divergence *)
(* condition fails is returned at line 143 with the initial confidence 0,  *)
(* not 25.                                                                 *)
(***************************************************************************)
Holds(conditions, name) == name \in DOMAIN conditions /\ conditions[name]

StructureHolds(conditions) ==
    Holds(conditions, "price_higher_high") \/ Holds(conditions, "price_lower_low")

WeightSum(conditions) ==
    (IF StructureHolds(conditions) THEN 25 ELSE 0)
    + (IF Holds(conditions, "cvd_divergence") THEN 35 ELSE 0)
    + (IF Holds(conditions, "funding_rate_extreme") THEN 20 ELSE 0)
    + (IF Holds(conditions, "open_interest_rising")
          \/ Holds(conditions, "open_interest_falling") THEN 10 ELSE 0)
    + (IF Holds(conditions, "confirmation") THEN 10 ELSE 0)

SignalReturned == sig_ret.op \in {"check_bearish_signal", "check_bullish_signal"}

BothGates(conditions) ==
    StructureHolds(conditions) /\ Holds(conditions, "cvd_divergence")

C11_ConfidenceIsWeightSum ==
    SignalReturned =>
        /\ sig_ret.v.confidence = WeightSum(sig_ret.v.conditions)
        /\ sig_ret.v.confidence \in 0..100
        /\ sig_ret.v.valid <=> (BothGates(sig_ret.v.conditions)
                                /\ WeightSum(sig_ret.v.conditions) >= 60)

(***************************************************************************)
(* C11 amended: confidence equals the sum of the weights of the conditions *)
(* that hold when both gating conditions hold, and is 0 when either gate   *)
(* fails; it lies in 0..100; valid is true iff both gating conditions hold *)
(* and the sum is >= 60.  The gating conditions recorded in the signal are *)
(* the ones the detector's pivots and the aggregator's pivots give.        *)
(***************************************************************************)
GatesOnState ==
    IF sig_ret.op = "check_bearish_signal"
    THEN /\ Len(price_pivots_high) >= 2
         /\ Last(price_pivots_high)[2] > Prev(price_pivots_high)[2]
         /\ C9_Expected(price_pivots_high, "bearish")
    ELSE /\ Len(price_pivots_low) >= 2
         /\ Last(price_pivots_low)[2] < Prev(price_pivots_low)[2]
         /\ C9_Expected(price_pivots_low, "bullish")

C11_ConfidenceIsWeightSumPastGates ==
    SignalReturned =>
        /\ BothGates(sig_ret.v.conditions) <=> GatesOnState
        /\ sig_ret.v.confidence =
               IF BothGates(sig_ret.v.conditions)
               THEN WeightSum(sig_ret.v.conditions) ELSE 0
        /\ sig_ret.v.confidence \in 0..100
        /\ sig_ret.v.valid <=> (BothGates(sig_ret.v.conditions)
                                /\ WeightSum(sig_ret.v.conditions) >= 60)

\* A bearish signal past both gates with funding extreme and no confirmation.
C11_Witness ==
    /\ sig_ret.op = "check_bearish_signal"
    /\ sig_ret.v.valid
    /\ Holds(sig_ret.v.conditions, "funding_rate_extreme")
    /\ Holds(sig_ret.v.conditions, "open_interest_rising")
    /\ ~Holds(sig_ret.v.conditions, "confirmation")
    /\ sig_ret.v.confidence = 90

(***************************************************************************)
(* C12: every signal returned with valid = true was accompanied, in the    *)
(* same evaluation, by exactly one signal-fired event (log_trade_signal)   *)
(* carrying its detail breakdown and its confidence, and no such event is  *)
(* emitted for a signal returned with valid = false.                       *)
(* Violated: get_current_price is read between setting valid and logging;  *)
(* when it raises, the except clause returns the signal, valid and scored, *)
(* and nothing was logged.                                                 *)
(***************************************************************************)
C12_ValidSignalFiresOneEvent ==
    SignalReturned =>
        IF sig_ret.v.valid
        THEN /\ Len(sig_ret.events) = 1
             /\ sig_ret.events[1].event = "log_trade_signal"
             /\ sig_ret.events[1].confidence = sig_ret.v.confidence
             /\ sig_ret.events[1].details # {}
        ELSE sig_ret.events = <<>>

(***************************************************************************)
(* C13: a position enters the active set only after its parameters passed  *)
(* validation: every active position has size > 0 and, for a long,         *)
(* stop_loss < entry_price < take_profit, for a short, take_profit <       *)
(* entry_price < stop_loss; a parameter set that fails validation is never *)
(* opened.                                                                 *)
(* Violated: register_position stores whatever it is given; it neither     *)
(* calls validate_position nor looks at an earlier validation result.      *)
(***************************************************************************)
WellOrdered(position) ==
    /\ RLt(FromInt(0), position.position_size)
    /\ IF position.side = "BUY"
       THEN /\ RLt(position.stop_loss, FromInt(position.entry_price))
            /\ RLt(FromInt(position.entry_price), position.take_profit)
       ELSE /\ RLt(position.take_profit, FromInt(position.entry_price))
            /\ RLt(FromInt(position.entry_price), position.stop_loss)

C13_ActivePositionsPassedValidation ==
    \A id \in DOMAIN active_positions : WellOrdered(active_positions[id])

(***************************************************************************)
(* C14: each register_position creates a new active entry whose id is      *)
(* distinct from every id registered before, with status active and        *)
(* unrealized PnL 0, and never replaces or discards an already active      *)
(* position.                                                               *)
(* Violated: the id is the caller's, and self.active_positions[id] = ...   *)
(* overwrites the entry an id already has.                                 *)
(***************************************************************************)
RegisterCall == n_risk_ops' = n_risk_ops + 1 /\ risk_ret'.op = "register_position"

C14_RegisterStep ==
    RegisterCall =>
        /\ risk_ret'.v \notin DOMAIN active_positions
        /\ risk_ret'.v \in DOMAIN active_positions'
        /\ active_positions'[risk_ret'.v].status = "active"
        /\ active_positions'[risk_ret'.v].unrealized_pnl = FromInt(0)
        /\ \A id \in DOMAIN active_positions :
               id \in DOMAIN active_positions'
               /\ active_positions'[id] = active_positions[id]

C14_RegisterCreatesNewEntry == [][C14_RegisterStep]_vars

(***************************************************************************)
(* SpecValidate: validate_position called on the caller's parameter sets.  *)
(***************************************************************************)
ValidateComplete == \E pp \in CompleteParams : ValidateGivenPosition(pp)

ValidateIncomplete == \E pp \in IncompleteParams : ValidateGivenPosition(pp)

NextValidate ==
    \/ ValidateComplete
    \/ ValidateIncomplete

SpecValidate == Init /\ [][NextValidate]_vars

(***************************************************************************)
(* C15: validate_position returns valid = false iff position_size <= 0,    *)
(* or the side is long and not (stop_loss < entry_price < take_profit), or *)
(* the side is short and not (take_profit < entry_price < stop_loss), or a *)
(* required field is missing; a risk amount above 10% of the balance and a *)
(* confidence below 60 only add a warning and never change valid.          *)
(* Violated: the high-risk warning text divides risk_amount by             *)
(* account_balance; with a balance of 0 that raises, and the except clause *)
(* turns a well-ordered parameter set invalid.                             *)
(***************************************************************************)
C15_Invalid(pp) ==
    \/ ~(RequiredFields \subseteq DOMAIN pp)
    \/ RLe(pp.position_size, FromInt(0))
    \/ /\ pp.side = "BUY"
       /\ ~(/\ RLt(pp.stop_loss, FromInt(pp.entry_price))
            /\ RLt(FromInt(pp.entry_price), pp.take_profit))
    \/ /\ pp.side = "SELL"
       /\ ~(/\ RLt(pp.take_profit, FromInt(pp.entry_price))
            /\ RLt(FromInt(pp.entry_price), pp.stop_loss))

C15_ValidationVerdict ==
    risk_ret.op = "validate_position" =>
        (risk_ret.v.valid = FALSE <=> C15_Invalid(risk_ret.pp))


(***************************************************************************)
(* C16: calculate_position_parameters returns None whenever the exchange   *)
(* reports a non-zero position amount for the symbol or the number of      *)
(* active positions is already >= max_positions, and returns parameters    *)
(* only when neither holds.                                                *)
(***************************************************************************)
CalculateReturned == risk_ret.op = "calculate_position_parameters"

ExchangePositionOpen ==
    risk_ret.position_amount.ok /\ risk_ret.position_amount.v # 0

ActiveLimitReached ==
    Cardinality({id \in DOMAIN active_positions :
                    active_positions[id].status = "active"}) >= max_positions

C16_NoParametersWhenPositionOpen ==
    CalculateReturned =>
        /\ (ExchangePositionOpen \/ ActiveLimitReached) => position_params = <<>>
        /\ position_params # <<>> =>
               /\ risk_ret.position_amount.ok
               /\ risk_ret.position_amount.v = 0
               /\ ~ActiveLimitReached

\* Refused with no exchange position, because one position is already active.
C16_Witness ==
    /\ CalculateReturned
    /\ risk_ret.position_amount = Ok(0)
    /\ ActiveLimitReached
    /\ position_params = <<>>

(***************************************************************************)
(* C17: check_stop_loss_take_profit on an active long returns stop_loss    *)
(* when current <= stop, otherwise take_profit when current >= target, and *)
(* nothing otherwise (short: stop_loss when current >= stop, otherwise     *)
(* take_profit when current <= target), and changes neither the active set *)
(* nor the trade history; so over a polled price sequence the first        *)
(* non-empty result comes at the first breaching price.                    *)
(***************************************************************************)
RiskCall(op) == n_risk_ops' = n_risk_ops + 1 /\ risk_ret'.op = op

C17_Expected(position, current) ==
    IF position.side = "BUY"
    THEN IF RLe(FromInt(current), position.stop_loss) THEN "stop_loss"
         ELSE IF RLe(position.take_profit, FromInt(current)) THEN "take_profit"
         ELSE "None"
    ELSE IF RLe(position.stop_loss, FromInt(current)) THEN "stop_loss"
         ELSE IF RLe(FromInt(current), position.take_profit) THEN "take_profit"
         ELSE "None"

C17_ResultMatchesBreach ==
    (/\ risk_ret.op = "check_stop_loss_take_profit"
     /\ risk_ret.position_id \in DOMAIN active_positions
     /\ risk_ret.price.ok)
    => risk_ret.v = C17_Expected(active_positions[risk_ret.position_id], risk_ret.price.v)

C17_CheckChangesNothing ==
    RiskCall("check_stop_loss_take_profit") => UNCHANGED riskVars

C17_StopLossTakeProfitCheck ==
    []C17_ResultMatchesBreach /\ [][C17_CheckChangesNothing]_vars

\* The long with stop 98 and target 106 polled at 97 after three other calls.
C17_Witness ==
    /\ risk_ret.op = "check_stop_loss_take_profit"
    /\ risk_ret.position_id \in DOMAIN active_positions
    /\ active_positions[risk_ret.position_id].side = "BUY"
    /\ active_positions[risk_ret.position_id].stop_loss = FromInt(98)
    /\ active_positions[risk_ret.position_id].take_profit = FromInt(106)
    /\ risk_ret.price = Ok(97)
    /\ risk_ret.v = "stop_loss"
    /\ n_risk_ops = 4

(***************************************************************************)
(* C18: close_position on an active id computes realized PnL =             *)
(* (exit - entry) * size for a long and (entry - exit) * size for a short, *)
(* appends exactly one record with status closed, the close reason, the    *)
(* exit price and that PnL to the trade history, removes the id from the   *)
(* active set, and changes no other position.                              *)
(***************************************************************************)
ExpectedPnl(position, price) ==
    IF position.side = "BUY"
    THEN RMul(RSub(FromInt(price), FromInt(position.entry_price)), position.position_size)
    ELSE RMul(RSub(FromInt(position.entry_price), FromInt(price)), position.position_size)

C18_CloseStep ==
    (RiskCall("close_position") /\ risk_ret'.position_id \in DOMAIN active_positions) =>
        LET id == risk_ret'.position_id
            realized == ExpectedPnl(active_positions[id], risk_ret'.exit_price)
            record == trade_history'[Len(trade_history')]
        IN  /\ Len(trade_history') = Len(trade_history) + 1
            /\ SubSeq(trade_history', 1, Len(trade_history)) = trade_history
            /\ record.position_id = id
            /\ record.status = "closed"
            /\ record.close_reason = risk_ret'.reason
            /\ record.exit_price = risk_ret'.exit_price
            /\ record.realized_pnl = realized
            /\ record.entry_price = active_positions[id].entry_price
            /\ record.position_size = active_positions[id].position_size
            /\ risk_ret'.v = <<realized>>
            /\ DOMAIN active_positions' = DOMAIN active_positions \ {id}
            /\ \A other \in DOMAIN active_positions' :
                   active_positions'[other] = active_positions[other]

C18_CloseRecordsRealizedPnl == [][C18_CloseStep]_vars

\* A short entered at 100 and closed at 97: (100 - 97) * 50 = 150.
C18_Witness ==
    /\ risk_ret.op = "close_position"
    /\ risk_ret.v = <<FromInt(150)>>
    /\ Len(trade_history) = 1
    /\ trade_history[1].side = "SELL"
    /\ trade_history[1].entry_price = 100
    /\ trade_history[1].exit_price = 97
    /\ trade_history[1].realized_pnl = FromInt(150)
    /\ trade_history[1].position_id \notin DOMAIN active_positions

(***************************************************************************)
(* C19: update_position_pnl on an active position sets its unrealized PnL  *)
(* to (current - entry) * size for a long and (entry - current) * size for *)
(* a short from the provider's current price, leaves every other position  *)
(* and the trade history unchanged, and when the price read fails leaves   *)
(* the position itself unchanged and returns no result.                    *)
(***************************************************************************)
C19_UpdateStep ==
    (RiskCall("update_position_pnl") /\ risk_ret'.position_id \in DOMAIN active_positions) =>
        LET id == risk_ret'.position_id
            before == active_positions[id]
        IN  /\ trade_history' = trade_history
            /\ DOMAIN active_positions' = DOMAIN active_positions
            /\ \A other \in DOMAIN active_positions \ {id} :
                   active_positions'[other] = active_positions[other]
            /\ IF risk_ret'.price.ok
               THEN /\ active_positions'[id].unrealized_pnl
                           = ExpectedPnl(before, risk_ret'.price.v)
                    /\ active_positions'[id].entry_price = before.entry_price
                    /\ active_positions'[id].position_size = before.position_size
                    /\ active_positions'[id].side = before.side
                    /\ active_positions'[id].status = "active"
                    /\ risk_ret'.v # <<>> =>
                           risk_ret'.v[1].unrealized_pnl
                               = ExpectedPnl(before, risk_ret'.price.v)
                    /\ before.position_size # FromInt(0) => risk_ret'.v # <<>>
               ELSE /\ active_positions'[id] = before
                    /\ risk_ret'.v = <<>>

C19_UpdateSetsUnrealizedPnl == [][C19_UpdateStep]_vars

\* A failed price read on a position whose PnL an earlier poll had set.
C19_Witness ==
    /\ risk_ret.op = "update_position_pnl"
    /\ risk_ret.position_id \in DOMAIN active_positions
    /\ ~risk_ret.price.ok
    /\ risk_ret.v = <<>>
    /\ active_positions[risk_ret.position_id].side = "SELL"
    /\ active_positions[risk_ret.position_id].unrealized_pnl = FromInt(150)

(***************************************************************************)
(* C20: update_position_pnl, check_stop_loss_take_profit and               *)
(* close_position called with an id that is not in the active set (an id   *)
(* already closed included) return no result and leave the active set and  *)
(* the trade history unchanged; closing a position twice records it once.  *)
(***************************************************************************)
C20_UnknownIdStep ==
    \A op \in {"update_position_pnl", "check_stop_loss_take_profit", "close_position"} :
        (RiskCall(op) /\ risk_ret'.position_id \notin DOMAIN active_positions) =>
            /\ UNCHANGED riskVars
            /\ risk_ret'.v = IF op = "check_stop_loss_take_profit" THEN "None" ELSE <<>>

C20_UnknownIdIsNoOp == [][C20_UnknownIdStep]_vars

\* The second close of a position: one record, nothing returned.
C20_Witness ==
    /\ risk_ret.op = "close_position"
    /\ risk_ret.v = <<>>
    /\ Len(trade_history) = 1
    /\ trade_history[1].position_id = risk_ret.position_id
    /\ risk_ret.position_id \notin DOMAIN active_positions

(***************************************************************************)
(* Reporting reads of the RiskManager: get_active_positions and            *)
(* get_risk_metrics.  Both refresh every active position through           *)
(* update_position_pnl before they read it; "prices" gives the answer of   *)
(* get_current_price for each of these refreshes.                          *)
(***************************************************************************)
\* The active set after update_position_pnl ran for each of its ids.
refresh_all(active, prices) ==
    [id \in DOMAIN active |-> update_position_pnl(active, id, prices[id])[id]]

\* get_active_positions: the active set it leaves and the copies it returns
get_active_positions(active, prices) ==
    [active_positions |-> refresh_all(active, prices),
     ret |-> refresh_all(active, prices)]

RECURSIVE RSum(_)
RSum(q) == IF q = <<>> THEN FromInt(0) ELSE RAdd(Head(q), RSum(Tail(q)))

RECURSIVE SumUnrealized(_, _)
SumUnrealized(active, ids) ==
    IF ids = {} THEN FromInt(0)
    ELSE LET id == CHOOSE x \in ids : TRUE
         IN  RAdd(active[id].unrealized_pnl, SumUnrealized(active, ids \ {id}))

IsWin(pnl) == RLt(FromInt(0), pnl)
IsLoss(pnl) == RLt(pnl, FromInt(0))
\* np.mean of a non-empty list
Mean(q) == RDiv(RSum(q), FromInt(Len(q)))

\* The profit factor reported whatever the average loss is.
profit_factor_unguarded(avg_win, avg_loss) == RAbs(RDiv(avg_win, avg_loss))

\* abs(avg_win / avg_loss) if avg_loss != 0 else 0
profit_factor(avg_win, avg_loss) ==
    IF avg_loss # FromInt(0) THEN RAbs(RDiv(avg_win, avg_loss)) ELSE FromInt(0)

\* get_risk_metrics: the active set it leaves and the dict it returns (the
\* empty dict, <<>>, when get_account_balance raises).
get_risk_metrics(active, history, balance, prices) ==
    IF ~balance.ok
    THEN [active_positions |-> active, ret |-> <<>>]            \* except, line 410
    ELSE
      LET refreshed == refresh_all(active, prices)
          realized_pnls == [i \in 1..Len(history) |-> history[i].realized_pnl]
          wins == SelectSeq(realized_pnls, IsWin)
          losses == SelectSeq(realized_pnls, IsLoss)
          traded == history # <<>>
          avg_win == IF traded /\ wins # <<>> THEN Mean(wins) ELSE FromInt(0)
          avg_loss == IF traded /\ losses # <<>> THEN Mean(losses) ELSE FromInt(0)
      IN  [active_positions |-> refreshed,
           ret |-> [account_balance |-> balance.v,
                    active_positions |-> ActiveCount(active),
                    max_positions |-> max_positions,
                    risk_per_trade |-> RMul(risk_per_trade, FromInt(100)),
                    risk_reward_ratio |-> risk_reward_ratio,
                    total_unrealized_pnl |-> SumUnrealized(refreshed, DOMAIN refreshed),
                    total_realized_pnl |-> IF traded THEN RSum(realized_pnls)
                                           ELSE FromInt(0),
                    total_trades |-> Len(history),
                    win_rate |-> IF traded
                                 THEN RMul(RDiv(FromInt(Len(wins)),
                                                FromInt(Len(realized_pnls))),
                                           FromInt(100))
                                 ELSE FromInt(0),
                    avg_win |-> avg_win,
                    avg_loss |-> avg_loss,
                    profit_factor |-> profit_factor(avg_win, avg_loss)]]

ReportPrices == [PositionIds -> {Fail, Ok(97), Ok(106)}]
BalanceAnswers == {Fail, Ok(10000)}

GetActivePositions(prices) ==
    LET r == get_active_positions(active_positions, prices)
    IN  /\ active_positions' = r.active_positions
        /\ risk_ret' = [op |-> "get_active_positions", prices |-> prices, v |-> r.ret]
        /\ UNCHANGED <<trade_history, position_params, cvdVars, obsVars, sigVars, taskVars, dataVars>>

GetRiskMetrics(balance, prices) ==
    LET r == get_risk_metrics(active_positions, trade_history, balance, prices)
    IN  /\ active_positions' = r.active_positions
        /\ risk_ret' = [op |-> "get_risk_metrics", prices |-> prices,
                        balance |-> balance, v |-> r.ret]
        /\ UNCHANGED <<trade_history, position_params, cvdVars, obsVars, sigVars, taskVars, dataVars>>

ReportActivePositions ==
    RiskOp /\ \E prices \in ReportPrices : GetActivePositions(prices)

ReportRiskMetrics ==
    RiskOp /\ \E balance \in BalanceAnswers, prices \in ReportPrices :
                  GetRiskMetrics(balance, prices)

NextReport ==
    \/ RiskRegisterGiven
    \/ RiskClose
    \/ ReportActivePositions
    \/ ReportRiskMetrics

SpecReport == Init /\ [][NextReport]_vars

(***************************************************************************)
(* C21: get_risk_metrics and get_active_positions compute their results    *)
(* without mutating risk-engine state: the active positions (all their     *)
(* fields) and the trade history are the same before and after the call.   *)
(***************************************************************************)
ReportCall ==
    /\ n_risk_ops' = n_risk_ops + 1
    /\ risk_ret'.op \in {"get_risk_metrics", "get_active_positions"}

C21_ReportStep == ReportCall => UNCHANGED riskVars

C21_ReportingReadsMutateNothing == [][C21_ReportStep]_vars

(***************************************************************************)
(* SpecTasks: process_trade followed statement by statement, with a        *)
(* get_current_cvd read issued by another task.  pc.at names the next      *)
(* group of statements of the call in progress:                            *)
(*   "total"       line 135, the closing candle's delta added to the total *)
(*   "record"      lines 138-154, the record appended, the pivot refresh   *)
(*   "initialize"  lines 112-127, _initialize_new_candle                   *)
(*   "accumulate"  lines 80-95, the trade added to the bucket              *)
(* The caller that schedules the tasks gives a mutating call exclusive     *)
(* access to its component for the call's duration.                        *)
(***************************************************************************)
\* A read that does not wait for the mutating call in progress.
exclusive_access_not_awaited(p) == TRUE

\* A read is served while no mutating call holds the component.
exclusive_access(p) == p = Idle

\* A component has one owner: its mutating calls run one after the other.
single_owner(p) == p = Idle

\* self.cumulative_cvd += self.current_candle_delta
close_add_delta(S) == [S EXCEPT !.cumulative_cvd = @ + S.current_candle_delta]

\* The rest of _close_current_candle, from the total line 135 left.
close_append_record(S) ==
    LET candle_record ==
            [timestamp |-> S.current_candle_start_time,
             delta |-> S.current_candle_delta,
             cumulative_cvd |-> S.cumulative_cvd,
             buy_volume |-> S.current_candle_data.buy_volume,
             sell_volume |-> S.current_candle_data.sell_volume,
             total_volume |-> S.current_candle_data.total_volume,
             trade_count |-> S.current_candle_data.trade_count,
             buy_ratio |-> <<S.current_candle_data.buy_volume,
                             Max(S.current_candle_data.total_volume, 1)>>]
    IN  update_pivot_detection(
            [S EXCEPT !.cvd_history = DequeAppend(@, candle_record, HistoryMaxLen)])

\* Lines 63-77 of process_trade: where a well-formed trade goes first.
first_statement(S, ev) ==
    LET candle_start_time == get_candle_start_time(ev.timestamp)
    IN  IF S.current_candle_start_time # None
           /\ candle_start_time # S.current_candle_start_time
        THEN "total"
        ELSE IF S.current_candle_start_time # candle_start_time
        THEN "initialize"
        ELSE "accumulate"

InProgress(at) == pc.op = "process_trade" /\ pc.at = at

BeginTrade(ev) ==
    /\ n_calls < MaxSteps
    /\ single_owner(pc)
    /\ pc' = [op |-> "process_trade", at |-> first_statement(CvdState, ev),
              ev |-> ev, entered |-> CvdState]
    /\ n_calls' = n_calls + 1
    /\ UNCHANGED <<cvdVars, net_applied, n_closed, last_ev,
                   riskVars, callerVars, sigVars, dataVars>>

StepTotal ==
    /\ InProgress("total")
    /\ SetCvd(close_add_delta(CvdState))
    /\ pc' = [pc EXCEPT !.at = "record"]
    /\ UNCHANGED <<obsVars, riskVars, callerVars, sigVars, dataVars>>

StepRecord ==
    /\ InProgress("record")
    /\ SetCvd(close_append_record(CvdState))
    /\ pc' = [pc EXCEPT !.at = "initialize"]
    /\ n_closed' = n_closed + 1
    /\ UNCHANGED <<n_calls, net_applied, last_ev, riskVars, callerVars, sigVars, dataVars>>

StepInitialize ==
    /\ InProgress("initialize")
    /\ SetCvd(initialize_new_candle(CvdState, get_candle_start_time(pc.ev.timestamp)))
    /\ pc' = [pc EXCEPT !.at = "accumulate"]
    /\ UNCHANGED <<obsVars, riskVars, callerVars, sigVars, dataVars>>

StepAccumulate ==
    /\ InProgress("accumulate")
    /\ SetCvd(accumulate(CvdState, pc.ev))
    /\ pc' = Idle
    /\ net_applied' = net_applied + SignedQuantity(pc.ev)
    /\ last_ev' = pc.ev
    /\ UNCHANGED <<n_calls, n_closed, riskVars, callerVars, sigVars, dataVars>>

\* A read that folds the bucket's delta into the total as a side effect.
get_current_cvd_call_folding(S) ==
    [state |-> close_add_delta(S), ret |-> get_current_cvd(S)]

\* A call of get_current_cvd: the state it leaves and what it returns.
get_current_cvd_call(S) == [state |-> S, ret |-> get_current_cvd(S)]

\* The caller notes the call's number and how many reads it has made in a
\* row with no other call in between.
ReadCurrentCvd ==
    /\ n_calls < MaxSteps
    /\ exclusive_access(pc)
    /\ SetCvd(get_current_cvd_call(CvdState).state)
    /\ sig_ret' = [op |-> "get_current_cvd",
                   v |-> get_current_cvd_call(CvdState).ret,
                   at_call |-> n_calls + 1,
                   reads |-> IF sig_ret.op = "get_current_cvd" /\ sig_ret.at_call = n_calls
                             THEN sig_ret.reads + 1 ELSE 1]
    /\ n_calls' = n_calls + 1
    /\ UNCHANGED <<net_applied, n_closed, last_ev,
                   riskVars, callerVars, detectorVars, taskVars, dataVars>>

TaskBeginTrade == \E ev \in WellFormedEvents : BeginTrade(ev)

NextTasks ==
    \/ TaskBeginTrade
    \/ StepTotal
    \/ StepRecord
    \/ StepInitialize
    \/ StepAccumulate
    \/ ReadCurrentCvd

SpecTasks == Init /\ [][NextTasks]_vars

\* The statements taken one by one leave what process_trade leaves.
StepsAgreeWithProcessTrade ==
    [][(pc.op = "process_trade" /\ pc' = Idle)
           => CvdState' = process_trade(pc.entered, pc.ev)]_vars

(***************************************************************************)
(* C22: a get_current_cvd read running concurrently with process_trade     *)
(* observes only the value from before the trade or the value after the    *)
(* trade was fully applied, never the value between the closing candle's   *)
(* delta being added to the cumulative total and the new bucket resetting  *)
(* the in-progress delta.                                                  *)
(***************************************************************************)
ReadCall ==
    /\ n_calls' = n_calls + 1
    /\ pc' = pc
    /\ sig_ret'.op = "get_current_cvd"

C22_ReadStep ==
    ReadCall => sig_ret'.v \in
        (IF pc.op = "process_trade"
         THEN {net_applied, net_applied + SignedQuantity(pc.ev)}
         ELSE {net_applied})

HistoryIds == {trade_history[i].position_id : i \in 1..Len(trade_history)}

fresh_id(position_id) ==
    position_id \notin DOMAIN active_positions \cup HistoryIds

Closing(at) == pc.op = "close_position" /\ pc.at = at

BeginClose(position_id, reason, exit_price) ==
    /\ RiskOp
    /\ single_owner(pc)
    /\ position_id \in DOMAIN active_positions
    /\ pc' = [op |-> "close_position", at |-> "mark", position_id |-> position_id,
              reason |-> reason, exit_price |-> exit_price,
              entered |-> [active_positions |-> active_positions,
                           trade_history |-> trade_history]]
    /\ UNCHANGED <<riskVars, position_params, risk_ret, cvdVars, obsVars, sigVars, dataVars>>

StepMark ==
    /\ Closing("mark")
    /\ active_positions' =
           [active_positions EXCEPT ![pc.position_id] =
                closed_record(@, pc.reason, pc.exit_price)]
    /\ pc' = [pc EXCEPT !.at = "append"]
    /\ UNCHANGED <<trade_history, callerVars, cvdVars, obsVars, sigVars, dataVars>>

StepAppend ==
    /\ Closing("append")
    /\ trade_history' = Append(trade_history, active_positions[pc.position_id])
    /\ pc' = [pc EXCEPT !.at = "delete"]
    /\ UNCHANGED <<active_positions, callerVars, cvdVars, obsVars, sigVars, dataVars>>

StepDelete ==
    /\ Closing("delete")
    /\ active_positions' = Remove(active_positions, pc.position_id)
    /\ pc' = Idle
    /\ risk_ret' = [op |-> "close_position", position_id |-> pc.position_id,
                    reason |-> pc.reason, exit_price |-> pc.exit_price,
                    v |-> <<trade_history[Len(trade_history)].realized_pnl>>]
    /\ UNCHANGED <<trade_history, position_params, n_risk_ops,
                   cvdVars, obsVars, sigVars, dataVars>>

TaskRegister ==
    /\ RiskOp
    /\ single_owner(pc)
    /\ \E position_id \in PositionIds, pp \in GivenParams :
           fresh_id(position_id) /\ RegisterGivenPosition(position_id, pp)

TaskClose ==
    \E position_id \in PositionIds, reason \in CloseReasons, exit_price \in ExitPrices :
        BeginClose(position_id, reason, exit_price)

TaskReportActivePositions ==
    RiskOp /\ exclusive_access(pc) /\ \E prices \in ReportPrices : GetActivePositions(prices)

TaskReportRiskMetrics ==
    /\ RiskOp
    /\ exclusive_access(pc)
    /\ \E balance \in BalanceAnswers, prices \in ReportPrices :
           GetRiskMetrics(balance, prices)

NextRiskTasks ==
    \/ TaskRegister
    \/ TaskClose
    \/ StepMark
    \/ StepAppend
    \/ StepDelete
    \/ TaskReportActivePositions
    \/ TaskReportRiskMetrics

SpecRiskTasks == Init /\ [][NextRiskTasks]_vars

\* The statements taken one by one leave what close_position leaves.
StepsAgreeWithClosePosition ==
    [][(pc.op = "close_position" /\ pc' = Idle) =>
           LET r == close_position(pc.entered.active_positions, pc.entered.trade_history,
                                   pc.position_id, pc.reason, pc.exit_price)
           IN  /\ trade_history' = r.trade_history
               /\ risk_ret'.v = r.ret
               /\ DOMAIN active_positions' = DOMAIN r.active_positions]_vars

(***************************************************************************)
(* C23: a reporting read (get_risk_metrics, get_active_positions)          *)
(* interleaved with close_position or register_position never observes a   *)
(* partial mutation: it sees no position in the active set with status     *)
(* closed and none that is in the active set and in the trade history at   *)
(* once, and it does not fail because the active set changed under it.     *)
(***************************************************************************)
ReportRead ==
    /\ n_risk_ops' = n_risk_ops + 1
    /\ pc' = pc
    /\ risk_ret'.op \in {"get_risk_metrics", "get_active_positions"}

C23_ReadStep ==
    ReportRead =>
        /\ \A id \in DOMAIN active_positions :
               /\ active_positions[id].status = "active"
               /\ id \notin HistoryIds
        /\ risk_ret'.op = "get_active_positions" =>
               /\ DOMAIN risk_ret'.v = DOMAIN active_positions
               /\ \A id \in DOMAIN risk_ret'.v :
                      /\ risk_ret'.v[id].status = "active"
                      /\ risk_ret'.v[id].position_id = id
        /\ (risk_ret'.op = "get_risk_metrics" /\ risk_ret'.balance.ok) =>
               /\ risk_ret'.v # <<>>
               /\ risk_ret'.v.active_positions = Cardinality(DOMAIN active_positions)
               /\ risk_ret'.v.total_trades = Len(trade_history)
               /\ risk_ret'.v.active_positions + risk_ret'.v.total_trades
                      = Cardinality(DOMAIN active_positions \cup HistoryIds)

MaxCandles == 8

TradeInNextCandle ==
    /\ n_calls < MaxCandles
    /\ \E quantity \in Quantities, is_buyer_maker \in BOOLEAN :
           LET ev == [timestamp |-> n_calls * TimeframeMs, quantity |-> quantity,
                      is_buyer_maker |-> is_buyer_maker, defect |-> "none"]
           IN  /\ SetCvd(process_trade(CvdState, ev))
               /\ ObserveTrade(ev)
               /\ last_ev' = ev
    /\ UNCHANGED <<riskVars, callerVars, sigVars, taskVars, dataVars>>

NextCandles == TradeInNextCandle

SpecCandles == Init /\ [][NextCandles]_vars

(***************************************************************************)
(* C24: after any sequence of process_trade calls the history holds at     *)
(* most HistoryMaxLen (1000) entries and each pivot sequence at most       *)
(* PivotMaxLen (50); an entry appended at capacity drops the oldest entry  *)
(* and the others keep their order, so trades in more successive candles   *)
(* than the capacity leave the history length at the cap.                  *)
(***************************************************************************)
\* new is old with entries appended and, at capacity, the oldest dropped
AppendedOldestFirst(old, new, maxlen) ==
    \E dropped \in 0..Len(old) :
        /\ Len(new) >= Len(old) - dropped
        /\ SubSeq(new, 1, Len(old) - dropped) = SubSeq(old, dropped + 1, Len(old))
        /\ dropped > 0 => Len(new) = maxlen

C24_WithinCapacity ==
    /\ Len(cvd_history) = Min(n_closed, HistoryMaxLen)
    /\ Len(cvd_pivots_high) <= PivotMaxLen
    /\ Len(cvd_pivots_low) <= PivotMaxLen

C24_CloseStep ==
    (n_closed' = n_closed + 1) =>
        /\ cvd_history' # <<>>
        /\ cvd_history'[Len(cvd_history')].timestamp = current_candle_start_time
        /\ IF Len(cvd_history) = HistoryMaxLen
           THEN SubSeq(cvd_history', 1, HistoryMaxLen - 1) = Tail(cvd_history)
           ELSE SubSeq(cvd_history', 1, Len(cvd_history)) = cvd_history
        /\ AppendedOldestFirst(cvd_pivots_high, cvd_pivots_high', PivotMaxLen)
        /\ AppendedOldestFirst(cvd_pivots_low, cvd_pivots_low', PivotMaxLen)

C24_BoundedHistoryAndPivots == []C24_WithinCapacity /\ [][C24_CloseStep]_vars

\* More candles than the capacity were closed, and a pivot sequence is full.
C24_Witness ==
    /\ n_closed > HistoryMaxLen
    /\ Len(cvd_history) = HistoryMaxLen
    /\ Len(cvd_pivots_high) = PivotMaxLen

(***************************************************************************)
(* C25: get_current_cvd() called twice with no process_trade in between    *)
(* returns the same value both times, and the call changes no aggregator   *)
(* state.                                                                  *)
(***************************************************************************)
LastCallWasARead == sig_ret.op = "get_current_cvd" /\ sig_ret.at_call = n_calls

C25_ReadStep ==
    ReadCall =>
        /\ UNCHANGED cvdVars
        /\ LastCallWasARead => sig_ret'.v = sig_ret.v

C25_ReadIsIdempotent == [][C25_ReadStep]_vars

\* Two reads in a row after a trade closed a candle and opened the next.
C25_Witness ==
    /\ sig_ret.op = "get_current_cvd"
    /\ sig_ret.reads = 2
    /\ sig_ret.at_call = n_calls
    /\ n_closed = 1
    /\ cumulative_cvd # 0
    /\ current_candle_delta # 0
    /\ sig_ret.v = cumulative_cvd + current_candle_delta

(***************************************************************************)
(* DataManager: the three cached reads.  A cache holds <<>> or one entry   *)
(* [data, cache_time]; "answer" is what the exchange client returns when   *)
(* it is asked (Fail: it raises).  Each read returns the cache it leaves,  *)
(* what it returns (Fail: it re-raises) and whether the client was asked.  *)
(***************************************************************************)
klines_cache_seconds == 60
funding_rate_cache_seconds == 300
open_interest_cache_seconds == 60
SecondsPerDay == 86400

\* timedelta.seconds of a non-negative difference of two datetimes: the
\* seconds left once the whole days are taken out.
timedelta_seconds(delta) == delta % SecondsPerDay

\* "if key in cache: ... if (current_time - cache_time).seconds < ttl"
cache_hit(cache, current_time, ttl) ==
    /\ cache # <<>>
    /\ timedelta_seconds(current_time - cache[1].cache_time) < ttl

cache_entry(data, current_time) == <<[data |-> data, cache_time |-> current_time]>>

get_historical_klines(cache, current_time, answer) ==
    IF cache_hit(cache, current_time, klines_cache_seconds)
    THEN [cache |-> cache, ret |-> Ok(cache[1].data), asked |-> FALSE]
    ELSE IF ~answer.ok
    THEN [cache |-> cache, ret |-> Fail, asked |-> TRUE]           \* raise, line 90
    ELSE [cache |-> cache_entry(answer.v, current_time),
          ret |-> Ok(answer.v), asked |-> TRUE]

\* futures_funding_rate returned an empty list
NoFundingInfo == [ok |-> TRUE, v |-> 0, empty |-> TRUE]

get_funding_rate(cache, current_time, answer) ==
    IF cache_hit(cache, current_time, funding_rate_cache_seconds)
    THEN [cache |-> cache, ret |-> Ok(cache[1].data), asked |-> FALSE]
    ELSE IF ~answer.ok
    THEN [cache |-> cache, ret |-> Fail, asked |-> TRUE]           \* raise, line 134
    ELSE IF "empty" \in DOMAIN answer
    THEN [cache |-> cache, ret |-> Ok(0), asked |-> TRUE]          \* line 130
    ELSE [cache |-> cache_entry(answer.v, current_time),
          ret |-> Ok(answer.v), asked |-> TRUE]

get_open_interest(cache, current_time, answer) ==
    IF cache_hit(cache, current_time, open_interest_cache_seconds)
    THEN [cache |-> cache, ret |-> Ok(cache[1].data), asked |-> FALSE]
    ELSE IF ~answer.ok
    THEN [cache |-> cache, ret |-> Fail, asked |-> TRUE]           \* raise, line 162
    ELSE [cache |-> cache_entry(answer.v, current_time),
          ret |-> Ok(answer.v), asked |-> TRUE]

\* Calls of the DataManager explored by SpecData.
MaxDataOps == 3
\* Seconds between one call and the next.
Elapsed == {30, 60, 300, SecondsPerDay + 30}
\* The client raises, or returns data not returned before.
ClientAnswers == {Fail, Ok(n_data_ops + 1)}

DataOp(op, elapsed, r) ==
    /\ n_data_ops < MaxDataOps
    /\ n_data_ops' = n_data_ops + 1
    /\ now' = now + elapsed
    /\ data_ret' = [op |-> op, asked |-> r.asked, v |-> r.ret]
    /\ UNCHANGED <<cvdVars, obsVars, riskVars, callerVars, sigVars, taskVars>>

GetHistoricalKlines ==
    \E elapsed \in Elapsed, answer \in ClientAnswers :
        LET r == get_historical_klines(klines_cache, now + elapsed, answer)
        IN  /\ DataOp("get_historical_klines", elapsed, r)
            /\ klines_cache' = r.cache
            /\ UNCHANGED <<funding_rate_cache, open_interest_cache>>

GetFundingRate ==
    \E elapsed \in Elapsed, answer \in ClientAnswers \cup {NoFundingInfo} :
        LET r == get_funding_rate(funding_rate_cache, now + elapsed, answer)
        IN  /\ DataOp("get_funding_rate", elapsed, r)
            /\ funding_rate_cache' = r.cache
            /\ UNCHANGED <<klines_cache, open_interest_cache>>

GetOpenInterest ==
    \E elapsed \in Elapsed, answer \in ClientAnswers :
        LET r == get_open_interest(open_interest_cache, now + elapsed, answer)
        IN  /\ DataOp("get_open_interest", elapsed, r)
            /\ open_interest_cache' = r.cache
            /\ UNCHANGED <<klines_cache, funding_rate_cache>>

NextData ==
    \/ GetHistoricalKlines
    \/ GetFundingRate
    \/ GetOpenInterest

SpecData == Init /\ [][NextData]_vars

(***************************************************************************)
(* C26: the data provider serves a cached klines, funding-rate or          *)
(* open-interest result only while its age is below its TTL (60 s, 300 s,  *)
(* 60 s); a read made once the TTL has elapsed, however long ago the entry *)
(* was stored, goes to the provider and replaces the cache entry.          *)
(***************************************************************************)
C26_Read(op, cache, cache_after, ttl) ==
    (n_data_ops' = n_data_ops + 1 /\ data_ret'.op = op) =>
        /\ ~data_ret'.asked => (cache # <<>> /\ now' - cache[1].cache_time < ttl)
        /\ (cache # <<>> /\ now' - cache[1].cache_time >= ttl) =>
               /\ data_ret'.asked
               /\ data_ret'.v \in {Fail, Ok(0)}
                      \/ cache_after = cache_entry(data_ret'.v.v, now')

C26_Step ==
    /\ C26_Read("get_historical_klines", klines_cache, klines_cache',
                klines_cache_seconds)
    /\ C26_Read("get_funding_rate", funding_rate_cache, funding_rate_cache',
                funding_rate_cache_seconds)
    /\ C26_Read("get_open_interest", open_interest_cache, open_interest_cache',
                open_interest_cache_seconds)

C26_CacheServedOnlyWithinTtl == [][C26_Step]_vars

(***************************************************************************)
(* C27: check_bearish_signal and check_bullish_signal never raise to the   *)
(* caller, and whenever a provider call made during the evaluation (klines *)
(* refresh, funding rate, open interest, current price) fails, the         *)
(* returned signal has valid = false.                                      *)
(***************************************************************************)
C27_FailedProviderCallInvalidates ==
    SignalReturned =>
        /\ sig_ret.v.valid \in BOOLEAN
        /\ sig_ret.failed # {} => sig_ret.v.valid = FALSE

(***************************************************************************)
(* C28: if the exchange-position, account-balance or current-price read    *)
(* fails, or the balance or price is not positive,                         *)
(* calculate_position_parameters returns no parameters (None); and in      *)
(* every outcome it leaves the active set and the trade history unchanged. *)
(***************************************************************************)
FoundationalReadUnusable ==
    \/ ~risk_ret.position_amount.ok
    \/ ~risk_ret.balance.ok
    \/ ~risk_ret.price.ok
    \/ risk_ret.balance.v <= 0
    \/ risk_ret.price.v <= 0

C28_NoneOnUnusableRead ==
    (CalculateReturned /\ FoundationalReadUnusable) =>
        (position_params = <<>> /\ risk_ret.v = <<>>)

C28_CalculateStep ==
    (risk_ret'.op = "calculate_position_parameters") => UNCHANGED riskVars

C28_SizingAbortsOnUnusableRead ==
    []C28_NoneOnUnusableRead /\ [][C28_CalculateStep]_vars

\* Sizing aborted on a balance of zero while one position is being followed.
C28_Witness ==
    /\ CalculateReturned
    /\ risk_ret.position_amount = Ok(0)
    /\ risk_ret.balance = Ok(0)
    /\ risk_ret.price = Ok(100)
    /\ position_params = <<>>
    /\ active_positions # <<>>

(***************************************************************************)
(* C29: the pivot refresh appends only pivots that are new: in every       *)
(* reachable state no two records of cvd_pivots_high, and no two records   *)
(* of cvd_pivots_low, refer to the same candle timestamp, so the last two  *)
(* records of a sequence are always two different pivots.                  *)
(***************************************************************************)
DistinctTimestamps(q) ==
    \A i, j \in 1..Len(q) : i # j => q[i].timestamp # q[j].timestamp

C29_PivotsAreRecordedOnce ==
    /\ DistinctTimestamps(cvd_pivots_high)
    /\ DistinctTimestamps(cvd_pivots_low)

(***************************************************************************)
(* C30: no pivot record is appended while the history holds fewer than     *)
(* 2 * lookback entries; every record appended by a refresh has timestamp  *)
(* and cvd_value equal to those of the history entry at the record's index *)
(* at detection time, where local index i in the window of the last        *)
(* min(50, len(history)) values maps to history position                   *)
(* len(history) - window_length + i.                                       *)
(***************************************************************************)
\* Record r names position r.index (counted from 0) of hist, a position of
\* the window of the last min(50, len(hist)) entries, and carries that
\* entry's timestamp and cumulative CVD.
NamesHistoryEntry(r, hist) ==
    LET window_length == Min(PivotWindow, Len(hist))
    IN  /\ \E i \in 0..(window_length - 1) : r.index = Len(hist) - window_length + i
        /\ r.timestamp = hist[r.index + 1].timestamp
        /\ r.cvd_value = hist[r.index + 1].cumulative_cvd

\* new is old with k records appended (oldest dropped beyond PivotMaxLen),
\* each of them naming an entry of hist.
AppendedFrom(old, new, hist) ==
    \E k \in 0..Len(new) :
        /\ Len(new) = Min(Len(old) + k, PivotMaxLen)
        /\ \A j \in 1..(Len(new) - k) : new[j] = old[Len(old) - (Len(new) - k) + j]
        /\ \A j \in (Len(new) - k + 1)..Len(new) : NamesHistoryEntry(new[j], hist)

C30_CloseStep ==
    (n_closed' = n_closed + 1) =>
        /\ Len(cvd_history') < lookback_period * 2 =>
               /\ cvd_pivots_high' = cvd_pivots_high
               /\ cvd_pivots_low' = cvd_pivots_low
        /\ AppendedFrom(cvd_pivots_high, cvd_pivots_high', cvd_history')
        /\ AppendedFrom(cvd_pivots_low, cvd_pivots_low', cvd_history')

\* The mapping of a local index to a history position, for every window
\* length over the history held.
C30_WindowMapping ==
    \A n_recent \in 1..Len(cvd_history) : \A i \in 0..(n_recent - 1) :
        LET r == PivotRecord(cvd_history, n_recent, i)
        IN  /\ r.index = Len(cvd_history) - n_recent + i
            /\ r.timestamp = cvd_history[r.index + 1].timestamp
            /\ r.cvd_value = cvd_history[r.index + 1].cumulative_cvd

C30_PivotRecordsNameTheirCandle ==
    []C30_WindowMapping /\ [][C30_CloseStep]_vars

\* A refresh over a history that already dropped its oldest candle has
\* just recorded a pivot: the last record names an entry of the history.
C30_Witness ==
    /\ n_closed > HistoryMaxLen
    /\ Len(cvd_history) >= lookback_period * 2
    /\ cvd_pivots_low # <<>>
    /\ NamesHistoryEntry(cvd_pivots_low[Len(cvd_pivots_low)], cvd_history)
    /\ cvd_pivots_low[Len(cvd_pivots_low)].index = 1

(***************************************************************************)
(* SpecRefresh: update_price_data called at any time after the last        *)
(* refresh, the provider answering with any of the price series or         *)
(* raising.                                                                *)
(***************************************************************************)
\* The condition under which update_price_data calls get_historical_klines.
update_price_data_fetches(D, seconds) ==
    D.last_update = None \/ seconds >= RefreshSeconds

\* Seconds between the last refresh and the call.
RefreshElapsed == {0, 30, 59, 60, 61, SecondsPerDay + 30}

UpdatePriceData(elapsed, klines) ==
    LET seconds == timedelta_seconds(elapsed)
        fetched == update_price_data_fetches(DetectorState, seconds)
    IN  /\ SetDetector(update_price_data(DetectorState, seconds, klines))
        /\ sig_ret' = [op |-> "update_price_data", elapsed |-> elapsed,
                       first_use |-> (last_update = None),
                       fetched |-> fetched,
                       refreshed |-> (fetched /\ klines.ok)]
        /\ UNCHANGED <<cvdVars, obsVars, riskVars, callerVars, taskVars, dataVars>>

NextRefresh ==
    \E elapsed \in RefreshElapsed :
        \E klines \in {NoKlines} \cup {Ok(series) : series \in PriceSeries} :
            UpdatePriceData(elapsed, klines)

SpecRefresh == Init /\ [][NextRefresh]_vars

(***************************************************************************)
(* C31: update_price_data fetches klines from the provider on first use    *)
(* and thereafter at most once per 60-second interval: a call made less    *)
(* than 60 seconds after the last successful refresh performs no fetch and *)
(* leaves the price window and the price pivots unchanged.                 *)
(***************************************************************************)
C31_RefreshStep ==
    (sig_ret'.op = "update_price_data") =>
        /\ last_update = None => sig_ret'.fetched
        /\ (last_update # None /\ sig_ret'.elapsed < RefreshSeconds) =>
               /\ ~sig_ret'.fetched
               /\ UNCHANGED detectorVars

C31_RefreshAtMostOncePerInterval == [][C31_RefreshStep]_vars

\* A call 59 seconds after a refresh that found two pivot highs went by
\* without a fetch.
C31_Witness ==
    /\ sig_ret.op = "update_price_data"
    /\ ~sig_ret.first_use
    /\ sig_ret.elapsed = 59
    /\ ~sig_ret.fetched
    /\ Len(price_pivots_high) = 2

(***************************************************************************)
(* SpecStops: _calculate_sl_tp called for either side at several entry     *)
(* prices, get_historical_klines answering with candle ranges of several   *)
(* lengths or raising.                                                     *)
(***************************************************************************)
StopEntryPrices == {1, 50, 100, 1000}
StopRanges == {1, 4, 30}
\* The high - low of the candles fetched: none, one, nine, ten, eleven or
\* twenty, the older ones of one range and the newer ones of another.
StopKlines ==
    {NoKlines} \cup
    {Ok(Rep(older, a) \o Rep(newer, b)) :
        older \in {0, 1, 10}, newer \in {0, 1, 9, 10}, a \in StopRanges, b \in StopRanges}

CalculateSlTp(entry_price, side, klines) ==
    /\ risk_ret' = [op |-> "_calculate_sl_tp", entry_price |-> entry_price,
                    side |-> side, klines |-> klines,
                    sl_pct |-> adjusted_sl_pct(entry_price, klines),
                    v |-> calculate_sl_tp(entry_price, side, klines)]
    /\ UNCHANGED <<riskVars, position_params, n_risk_ops, cvdVars, obsVars, sigVars,
                   taskVars, dataVars>>

NextStops ==
    \E entry_price \in StopEntryPrices, side \in {"BUY", "SELL"}, klines \in StopKlines :
        CalculateSlTp(entry_price, side, klines)

SpecStops == Init /\ [][NextStops]_vars

(***************************************************************************)
(* C32: the stop percentage used by _calculate_sl_tp equals                *)
(* max(2%, 1.5 * ATR-proxy / entry_price), the ATR-proxy being the mean of *)
(* (high - low) over the last 10 of the fetched candles; it is never below *)
(* 2%, and it is exactly 2% when fewer than 10 candles are available or    *)
(* the klines call fails.                                                  *)
(***************************************************************************)
TwoPercent == Rat(2, 100)

\* 1.5 * (sum of the last ten ranges / 10) / entry_price
C32_VolatilityStop(ranges, entry_price) ==
    LET n == Len(ranges)
        total == SumSeq([k \in 1..10 |-> ranges[n - 10 + k]])
    IN  Rat(3 * total, 2 * 10 * entry_price)

C32_StopPercentage ==
    (risk_ret.op = "_calculate_sl_tp") =>
        LET klines == risk_ret.klines
            entry_price == risk_ret.entry_price
        IN  /\ RLe(TwoPercent, risk_ret.sl_pct)
            /\ (~klines.ok \/ Len(klines.v) < 10) => risk_ret.sl_pct = TwoPercent
            /\ (klines.ok /\ Len(klines.v) >= 10) =>
                   LET vol == C32_VolatilityStop(klines.v, entry_price)
                   IN  risk_ret.sl_pct = (IF RLt(TwoPercent, vol) THEN vol ELSE TwoPercent)
            /\ RAbs(RSub(FromInt(entry_price), risk_ret.v[1]))
                   = RMul(FromInt(entry_price), risk_ret.sl_pct)

\* Eleven candles, the last ten of range 4, at entry price 100: the stop
\* percentage is 1.5 * 4 / 100 = 6% and the long stop is 94.
C32_Witness ==
    /\ risk_ret.op = "_calculate_sl_tp"
    /\ risk_ret.klines = Ok(Rep(1, 30) \o Rep(10, 4))
    /\ risk_ret.entry_price = 100
    /\ risk_ret.side = "BUY"
    /\ risk_ret.sl_pct = Rat(6, 100)
    /\ risk_ret.v[1] = FromInt(94)

(***************************************************************************)
(* C33: whenever the open-interest read succeeds the open-interest check   *)
(* reports rising = true and falling = false, so a bearish evaluation that *)
(* passes both gates always receives the +10 open-interest points and a    *)
(* bullish evaluation never does (bullish confidence is at most 90); when  *)
(* the read fails neither polarity receives the points.                    *)
(***************************************************************************)
\* The evaluation went past both gates and read the open interest.
OpenInterestRead == SignalReturned /\ "open_interest" \in sig_ret.checks
OpenInterestReadFailed == "open_interest" \in sig_ret.failed

\* The points of the conditions other than the open-interest one.
C33_OtherPoints ==
    25 + 35
    + (IF sig_ret.v.conditions["funding_rate_extreme"] THEN 20 ELSE 0)
    + (IF sig_ret.v.conditions["confirmation"] THEN 10 ELSE 0)

C33_OpenInterestPoints ==
    OpenInterestRead =>
        /\ (sig_ret.op = "check_bearish_signal" /\ ~OpenInterestReadFailed) =>
               /\ sig_ret.v.conditions["open_interest_rising"] = TRUE
               /\ sig_ret.v.confidence = C33_OtherPoints + 10
        /\ (sig_ret.op = "check_bearish_signal" /\ OpenInterestReadFailed) =>
               /\ sig_ret.v.conditions["open_interest_rising"] = FALSE
               /\ sig_ret.v.confidence = C33_OtherPoints
        /\ sig_ret.op = "check_bullish_signal" =>
               /\ sig_ret.v.conditions["open_interest_falling"] = FALSE
               /\ sig_ret.v.confidence = C33_OtherPoints
               /\ sig_ret.v.confidence <= 90

\* A bullish evaluation with extreme funding and confirmation whose
\* open-interest read succeeded: 90, without the open-interest points.
C33_Witness ==
    /\ sig_ret.op = "check_bullish_signal"
    /\ "open_interest" \in sig_ret.checks
    /\ ~OpenInterestReadFailed
    /\ sig_ret.v.confidence = 90

(***************************************************************************)
(* C34: after every successful price-data refresh, price_pivots_high and   *)
(* price_pivots_low contain only pivots of the newly fetched price window, *)
(* at most the 10 most recent of each in window order, and never pivots    *)
(* left over from an earlier window (also when the new window is shorter   *)
(* than the lookback period).                                              *)
(***************************************************************************)
\* pivots are pivots of the window data, in window order: each names a
\* candle of data by its open time and carries that candle's price, and
\* the candles named come one after the other.
PivotsOfWindow(pivots, data, field) ==
    \E at \in [1..Len(pivots) -> 1..Len(data)] :
        /\ \A j \in 1..Len(pivots) :
               /\ pivots[j] = <<data[at[j]].open_time, data[at[j]][field]>>
               /\ j > 1 => at[j - 1] < at[j]

C34_RefreshedPivotsAreOfTheNewWindow ==
    (sig_ret.op = "update_price_data" /\ sig_ret.refreshed) =>
        /\ Len(price_pivots_high) <= PricePivotKeep
        /\ Len(price_pivots_low) <= PricePivotKeep
        /\ PivotsOfWindow(price_pivots_high, price_data, "high")
        /\ PivotsOfWindow(price_pivots_low, price_data, "low")

(***************************************************************************)
(* SpecAnyOrder: a few well-formed trades with timestamps of four buckets  *)
(* in any order, and reset().                                              *)
(***************************************************************************)
AnyOrderTimestamps ==
    {0, TimeframeMs - 1, TimeframeMs, 2 * TimeframeMs, 3 * TimeframeMs}

TradeAtAnyTime ==
    \E timestamp \in AnyOrderTimestamps, quantity \in Quantities,
       is_buyer_maker \in BOOLEAN :
        TracedTrade([timestamp |-> timestamp, quantity |-> quantity,
                     is_buyer_maker |-> is_buyer_maker, defect |-> "none"])

NextAnyOrder ==
    \/ TradeAtAnyTime
    \/ TracedReset

SpecAnyOrder == Init /\ [][NextAnyOrder]_vars

(***************************************************************************)
(* C35: for any sequence of trade timestamps, including out-of-order ones, *)
(* the history's entry timestamps are strictly increasing and each candle  *)
(* open_time appears in at most one history entry, so all trades of one    *)
(* bucket are summed into a single closed candle.                          *)
(***************************************************************************)
C35_HistoryTimestampsStrictlyIncrease ==
    \A i \in 1..Len(cvd_history) : \A j \in 1..Len(cvd_history) :
        i < j => cvd_history[i].timestamp < cvd_history[j].timestamp

\* C35 as amended: for trades that arrive in candle order.  The history is
\* in order and wholly before the open candle ...
C35_InOrder ==
    /\ C35_HistoryTimestampsStrictlyIncrease
    /\ current_candle_start_time # None =>
           \A i \in 1..Len(cvd_history) :
               cvd_history[i].timestamp < current_candle_start_time

\* ... the trade of this step belongs to the open candle or to a later one ...
C35_TradeInCandleOrder ==
    /\ TradeCall
    /\ \/ current_candle_start_time = None
       \/ Bucket(last_ev'.timestamp) >= current_candle_start_time

\* ... and then it leaves the history in order and wholly before the open
\* candle, with one entry more exactly when its bucket is a later one.
C35_InOrderStep ==
    (C35_InOrder /\ C35_TradeInCandleOrder) =>
        /\ C35_InOrder'
        /\ Len(cvd_history') = Min(HistoryMaxLen,
               Len(cvd_history) +
               (IF /\ current_candle_start_time # None
                   /\ Bucket(last_ev'.timestamp) > current_candle_start_time
                THEN 1 ELSE 0))

C35_InOrderTradesKeepHistoryOrdered == [][C35_InOrderStep]_vars

\* Trades in the buckets 0, T and 2T, in that order, and one more in 2T:
\* two closed candles in order, the open one after them.
C35_Witness ==
    /\ n_calls = 4
    /\ Len(cvd_history) = 2
    /\ C35_InOrder
    /\ current_candle_start_time = 2 * TimeframeMs
    /\ current_candle_data.trade_count = 2

(***************************************************************************)
(* C36: a candle that received trades is appended to the history exactly   *)
(* once, at the moment the first trade belonging to a different bucket is  *)
(* processed, with the cumulative total increased by its delta at that     *)
(* same step; until such a trade arrives the in-progress candle stays out  *)
(* of the history, and only reset() discards a candle without recording    *)
(* it.                                                                     *)
(***************************************************************************)
\* The call of this step is a trade whose bucket is read and differs from
\* the open candle's.
C36_TradeOfAnotherBucket ==
    /\ TradeCall
    /\ ReachesBucketing(last_ev')
    /\ current_candle_start_time # None
    /\ Bucket(last_ev'.timestamp) # current_candle_start_time

C36_ResetCall == n_calls' = n_calls + 1 /\ last_ev' = NoEvent

\* The open candle became the newest history entry, once.
C36_CandleRecorded ==
    /\ Len(cvd_history') = Min(Len(cvd_history) + 1, HistoryMaxLen)
    /\ AppendedOldestFirst(cvd_history, cvd_history', HistoryMaxLen)
    /\ LET record == cvd_history'[Len(cvd_history')]
       IN  /\ record.timestamp = current_candle_start_time
           /\ record.delta = current_candle_delta
           /\ record.trade_count = current_candle_data.trade_count
           /\ record.cumulative_cvd = cumulative_cvd + current_candle_delta
    /\ cumulative_cvd' = cumulative_cvd + current_candle_delta

C36_Step ==
    /\ C36_TradeOfAnotherBucket =>
           /\ C36_CandleRecorded
           /\ current_candle_start_time' = Bucket(last_ev'.timestamp)
    /\ (TradeCall /\ ~C36_TradeOfAnotherBucket) =>
           /\ cvd_history' = cvd_history
           /\ cumulative_cvd' = cumulative_cvd
           /\ current_candle_start_time # None =>
                  current_candle_start_time' = current_candle_start_time
    /\ C36_ResetCall =>
           /\ cvd_history' = <<>>
           /\ current_candle_start_time' = None

C36_CandleRecordedOnceAtBucketChange == [][C36_Step]_vars

\* The open candle is not in the history while it is open: the newest entry
\* is another candle's whenever the last call was a trade.
C36_OpenCandleNotInHistory ==
    (last_ev # NoEvent /\ current_candle_start_time # None /\ cvd_history # <<>>) =>
        cvd_history[Len(cvd_history)].timestamp # current_candle_start_time

C36_CandleLifecycle ==
    []C36_OpenCandleNotInHistory /\ C36_CandleRecordedOnceAtBucketChange

\* A candle of two trades was closed by a trade of the next bucket.
C36_Witness ==
    /\ last_ev # NoEvent
    /\ n_closed = 1
    /\ Len(cvd_history) = 1
    /\ cvd_history[1].trade_count = 2
    /\ cvd_history[1].timestamp = 0
    /\ current_candle_start_time = TimeframeMs
    /\ cumulative_cvd = cvd_history[1].delta

(***************************************************************************)
(* get_current_candle_stats: ratios kept as <<numerator, denominator>>.    *)
(***************************************************************************)
get_current_candle_stats(S) ==
    LET total_volume == Max(S.current_candle_data.total_volume, 1)
    IN  [delta |-> S.current_candle_delta,
         buy_volume |-> S.current_candle_data.buy_volume,
         sell_volume |-> S.current_candle_data.sell_volume,
         total_volume |-> total_volume,
         buy_ratio |-> <<S.current_candle_data.buy_volume, total_volume>>,
         sell_ratio |-> <<S.current_candle_data.sell_volume, total_volume>>,
         trade_count |-> S.current_candle_data.trade_count,
         cumulative_cvd |-> get_current_cvd(S)]

(***************************************************************************)
(* C37: after reset() the aggregator is observably identical to a freshly  *)
(* constructed one: cumulative total, history and both pivot sequences are *)
(* empty/zero and every current-candle figure reported by                  *)
(* get_current_candle_stats (delta, buy_volume, sell_volume, trade_count)  *)
(* is zero, with the standalone in-progress delta equal to the bucket's    *)
(* delta field.                                                            *)
(***************************************************************************)
LastCallWasReset == n_calls > 0 /\ last_ev = NoEvent

C37_ResetLooksFreshlyConstructed ==
    LastCallWasReset =>
        /\ cumulative_cvd = 0
        /\ cvd_history = <<>>
        /\ cvd_pivots_high = <<>>
        /\ cvd_pivots_low = <<>>
        /\ get_current_candle_stats(CvdState) = get_current_candle_stats(CvdConstructed)
        /\ current_candle_delta = current_candle_data.delta

(***************************************************************************)
(* C38: in every parameter set returned by calculate_position_parameters,  *)
(* the recorded risk_amount equals position_size * |entry_price -          *)
(* stop_loss| (the loss actually taken if the stop is hit) and             *)
(* reward_amount equals risk_amount * risk_reward_ratio, also when the     *)
(* size was clamped to the minimum or the maximum.                         *)
(***************************************************************************)
LossAtStop(pp) ==
    RMul(pp.position_size, RAbs(RSub(FromInt(pp.entry_price), pp.stop_loss)))

C38_RiskAmountIsLossAtStop ==
    (CalculateReturned /\ position_params # <<>>) =>
        LET pp == position_params[1]
        IN  /\ pp.risk_amount = LossAtStop(pp)
            /\ pp.reward_amount = RMul(pp.risk_amount, pp.risk_reward_ratio)

(***************************************************************************)
(* C39: the trade history is append-only and positions are conserved: no   *)
(* operation removes or alters an existing trade-history record, its       *)
(* length never decreases, and after any sequence of register / update /   *)
(* check / close operations every registered position id is in exactly     *)
(* one of the active set or the trade history.                             *)
(***************************************************************************)
C39_HistoryOnlyGrows ==
    /\ Len(trade_history') >= Len(trade_history)
    /\ SubSeq(trade_history', 1, Len(trade_history)) = trade_history

C39_NoIdBothActiveAndClosed ==
    \A position_id \in DOMAIN active_positions :
        \A k \in 1..Len(trade_history) : trade_history[k].position_id # position_id

C39_AppendOnlyHistoryAndConservedIds ==
    [][C39_HistoryOnlyGrows]_vars /\ []C39_NoIdBothActiveAndClosed

(***************************************************************************)
(* C40: whenever both gating conditions (price structure and CVD           *)
(* divergence) hold and no provider call fails, the returned signal is     *)
(* valid whatever the funding, open-interest and confirmation outcomes     *)
(* are, because the two gates alone score 60; the confidence of any        *)
(* returned signal is one of 0, 60, 70, 80, 90, 100.                       *)
(***************************************************************************)
\* Both gating conditions are recorded as true in the returned signal.
BothGatesHeld ==
    /\ SignalReturned
    /\ LET conditions == sig_ret.v.conditions
           structure == IF sig_ret.op = "check_bearish_signal"
                        THEN "price_higher_high" ELSE "price_lower_low"
       IN  /\ conditions[structure] = TRUE
           /\ "cvd_divergence" \in DOMAIN conditions
           /\ conditions["cvd_divergence"] = TRUE

C40_GatesAloneMakeTheSignalValid ==
    SignalReturned =>
        /\ sig_ret.v.confidence \in {0, 60, 70, 80, 90, 100}
        /\ (BothGatesHeld /\ sig_ret.failed = {}) =>
               /\ sig_ret.v.valid = TRUE
               /\ sig_ret.v.confidence >= 60

\* Both gates held, every provider call answered, and neither funding nor
\* confirmation nor open interest added a point: a valid bullish signal at
\* exactly 60.
C40_Witness ==
    /\ sig_ret.op = "check_bullish_signal"
    /\ BothGatesHeld
    /\ sig_ret.failed = {}
    /\ sig_ret.v.valid = TRUE
    /\ sig_ret.v.confidence = 60

====
